---- MODULE Spec2Model ----
(***************************************************************************)
(* BLETinyFlow: the ImageService GATT service (src/image_service.cpp) as a *)
(* state machine.  One action per transport event handled by               *)
(* ImageService::handle_event, plus the public calls of the application    *)
(* (set_image_transfer_callback, release_image_buffer, the destructor).    *)
(*                                                                         *)
(* Every member function of the class is an operator from a "world" record *)
(* (the object's fields, the heap, the effects emitted so far in the       *)
(* current event) to the world after the call; what the C++ function       *)
(* returns is left in the field ret.  An action draws the event's inputs   *)
(* and the outcomes of the external calls (malloc, calloc,                 *)
(* esp_ble_gatts_send_indicate, ...) with \E and commits the world the     *)
(* handler produces.                                                       *)
(***************************************************************************)
EXTENDS Integers, Sequences, FiniteSets, TLC

(***************************************************************************)
(* Bounds.  Two limits of image_service.h are scaled down so that the      *)
(* buffer and the request windows can be enumerated:                       *)
(*   MAX_TRANSFER_SIZE           1024*1024 in the source                   *)
(*   DEFAULT_CHUNKS_PER_REQUEST  40 in the source                          *)
(* The code compares against them and never relies on their magnitude.     *)
(***************************************************************************)
MAX_TRANSFER_SIZE == 3
DEFAULT_CHUNKS_PER_REQUEST == 2
\* longest payload (write length minus the header) of a data write
MaxPayload == 2
\* number of successful malloc calls (image buffers) in one behaviour
MaxAllocs == 2
\* cap on sequence_number_, i.e. on the control messages built in one behaviour
MaxSeq == 4
\* attribute handles the stack hands out start here (any value > 0)
FirstHandle == 40
\* cap on char_count_ and descr_count_ for creation events nobody asked for
MaxCount == 3
\* number of times the application is registered again in one behaviour
MaxReRegs == 1

(***************************************************************************)
(* Program constants (image_service.h).                                    *)
(***************************************************************************)
DATA_HEADER_SIZE == 4
CONTROL_MSG_SIZE == 20
MAX_MTU_SIZE == 512
DEFAULT_MTU == 23
\* CommandType
TRANSFER_INIT == 1
CHUNK_REQUEST == 130
TRANSFER_COMPLETE_ACK == 131
TRANSFER_ERROR == 132
\* ErrorCode
UNKNOWN_ERROR == 1
TRANSFER_TOO_LARGE == 2
CHUNK_SIZE_TOO_LARGE == 3
MEMORY_ALLOCATION_FAILED == 4
BUFFER_OVERFLOW == 5
INVALID_CHUNK_ID == 6
DUPLICATE_CHUNK == 7
CONTROL_MESSAGE_TOO_SHORT == 8
DATA_CHUNK_TOO_SHORT == 9
NOTIFICATION_SEND_FAILED == 10
INVALID_COMMAND == 11
\* the JPEG start-of-image marker tested by validate_jpeg_header
JPEG_SOI_0 == 255
JPEG_SOI_1 == 216
\* AdvertisingManager's configuration flags (advertising.h:27-28)
ADV_CONFIG_FLAG == 1
SCAN_RSP_CONFIG_FLAG == 2

\* uint16_t arithmetic
U16(x) == x % 65536

Min(a, b) == IF a < b THEN a ELSE b

\* a buffer cell no memcpy has written yet (malloc does not initialise)
UNINIT == 0 - 1

Bytes == {JPEG_SOI_0, JPEG_SOI_1}

\* n bytes that start with b and alternate between the two values
Alternating(b, n) ==
  [i \in 1..n |-> IF i % 2 = 1 THEN b ELSE JPEG_SOI_0 + JPEG_SOI_1 - b]

\* the payloads a data write of the model carries
Payloads == {Alternating(b, n) : b \in Bytes, n \in 0..MaxPayload}

\* the largest chunk_size a TRANSFER_INIT may announce
MAX_CHUNK_SIZE == MAX_MTU_SIZE - DATA_HEADER_SIZE

\* the TRANSFER_INIT parameters describe an image of total bytes cut into n
\* pieces of csize bytes, the last one possibly shorter
ValidTriple(total, csize, n) ==
  /\ total >= 1
  /\ csize >= 1
  /\ n >= 1
  /\ (n - 1) * csize < total
  /\ total <= n * csize

\* The TRANSFER_INIT parameters <<total_size, chunk_size, expected_chunks>> of
\* the first transfer of a behaviour (FirstTransfer below): every image up to
\* MAX_TRANSFER_SIZE cut into chunks of up to MaxPayload bytes; parameters that
\* do not describe an image (no chunks, empty chunks, more or fewer chunks
\* than the image has); and the parameters at and just past each limit.
InitTriples ==
  {t \in (1..MAX_TRANSFER_SIZE) \X (1..MaxPayload) \X (1..MAX_TRANSFER_SIZE) :
     ValidTriple(t[1], t[2], t[3])}
  \cup {<<1, 1, 0>>,
        <<0, 0, 2 * DEFAULT_CHUNKS_PER_REQUEST>>,
        <<1, 0, 2>>,
        <<2, 1, 3>>,
        <<MAX_TRANSFER_SIZE, 1, 1>>,
        <<1, MAX_CHUNK_SIZE, 1>>,
        <<MAX_TRANSFER_SIZE + 1, 1, 1>>,
        <<1, MAX_CHUNK_SIZE + 1, 1>>}

\* ... and of the other transfers
LaterTriples ==
  {<<2, 1, 2>>,
   <<MAX_TRANSFER_SIZE + 1, 1, 1>>}

BufIds == 1..MaxAllocs

VARIABLES
  \* ---- ImageService fields (image_service.h:179-228)
  control_char_handle_, data_char_handle_,
  control_notify_handle_, data_notify_handle_,
  conn_id_, mtu_,
  control_notifications_enabled_, data_notifications_enabled_,
  char_count_, descr_count_, char_creation_state_,
  status_, sequence_number_,
  total_size_, chunk_size_, expected_chunks_,
  image_buffer_, received_size_, next_expected_chunk_,
  chunk_received_map_,
  current_request_start_, current_request_end_, chunks_per_request_,
  total_chunks_received_, current_batch_received_,
  image_callback_,
  \* ---- AdvertisingManager (advertising.h:30)
  adv_config_done_,
  \* ---- the heap: blocks returned by malloc (image buffers) and calloc (maps)
  heap, maps,
  \* ---- the transport and the application around the object
  alive,          \* the object has not been destroyed
  connected,      \* a client is connected
  pending,        \* creation requests the stack has accepted and not yet answered
  attrs,          \* attribute handles that exist at the stack
  consumer_buf,   \* the buffer the consumer got from the callback and has not released
  fault,          \* "none", or the undefined behaviour the last handler ran into
  gap,            \* AdvertisingManager::init's position and the GAP side of the stack
  \* ---- what the last event was and what it did
  ev,             \* the last event handled
  out,            \* effects of the last event, in order (messages, callback, requests)
  sess            \* what the peer delivered since the last accepted TRANSFER_INIT

fields == <<control_char_handle_, data_char_handle_,
            control_notify_handle_, data_notify_handle_,
            conn_id_, mtu_,
            control_notifications_enabled_, data_notifications_enabled_,
            char_count_, descr_count_, char_creation_state_,
            status_, sequence_number_,
            total_size_, chunk_size_, expected_chunks_,
            image_buffer_, received_size_, next_expected_chunk_,
            chunk_received_map_,
            current_request_start_, current_request_end_, chunks_per_request_,
            total_chunks_received_, current_batch_received_,
            image_callback_>>

vars == <<fields, adv_config_done_, heap, maps, alive, connected, pending,
          attrs, consumer_buf, fault, gap, ev, out, sess>>

\* the world a handler starts from: the object, the heap and the environment
World ==
  [control_char_handle_ |-> control_char_handle_,
   data_char_handle_ |-> data_char_handle_,
   control_notify_handle_ |-> control_notify_handle_,
   data_notify_handle_ |-> data_notify_handle_,
   conn_id_ |-> conn_id_,
   mtu_ |-> mtu_,
   control_notifications_enabled_ |-> control_notifications_enabled_,
   data_notifications_enabled_ |-> data_notifications_enabled_,
   char_count_ |-> char_count_,
   descr_count_ |-> descr_count_,
   char_creation_state_ |-> char_creation_state_,
   status_ |-> status_,
   sequence_number_ |-> sequence_number_,
   total_size_ |-> total_size_,
   chunk_size_ |-> chunk_size_,
   expected_chunks_ |-> expected_chunks_,
   image_buffer_ |-> image_buffer_,
   received_size_ |-> received_size_,
   next_expected_chunk_ |-> next_expected_chunk_,
   chunk_received_map_ |-> chunk_received_map_,
   current_request_start_ |-> current_request_start_,
   current_request_end_ |-> current_request_end_,
   chunks_per_request_ |-> chunks_per_request_,
   total_chunks_received_ |-> total_chunks_received_,
   current_batch_received_ |-> current_batch_received_,
   image_callback_ |-> image_callback_,
   adv_config_done_ |-> adv_config_done_,
   gap |-> gap,
   heap |-> heap,
   maps |-> maps,
   pending |-> pending,
   attrs |-> attrs,
   consumer_buf |-> consumer_buf,
   fault |-> fault,
   ev |-> ev,
   out |-> out,
   ctx |-> "engine",
   ret |-> FALSE]

(***************************************************************************)
(* History of the current transfer, kept for the properties below; no      *)
(* handler reads it.                                                       *)
(*   proper:  a TRANSFER_INIT was accepted (it ended in REQUESTING_CHUNKS) *)
(*            and every event since was the delivery of a data chunk with  *)
(*            a fresh id below expected_chunks and its full payload;       *)
(*   got:     the payload delivered for each chunk id (at index id + 1);   *)
(*   req_failed: a CHUNK_REQUEST of the transfer could not be sent;        *)
(*   windows: the <<start, count>> of the CHUNK_REQUESTs sent since the    *)
(*            TRANSFER_INIT;                                               *)
(*   inwin:   every chunk accepted so far lay in the window requested at   *)
(*            the time;                                                    *)
(*   lens:    the payload length of each chunk stored since the receipt    *)
(*            map was allocated (at index id + 1).                         *)
(***************************************************************************)
NoSession ==
  [proper |-> FALSE, got |-> <<>>, req_failed |-> FALSE,
   windows |-> <<>>, inwin |-> TRUE, lens |-> <<>>]

\* length of chunk id's payload when the image is cut into csize pieces
ProperLen(id, total, csize, n) ==
  IF id < n - 1 THEN csize ELSE total - (n - 1) * csize

\* the CHUNK_REQUESTs among the effects o
Requests(o) ==
  SelectSeq(o, LAMBDA e : e.t = "tx" /\ e.cmd = CHUNK_REQUEST)

\* the windows announced by the effects o
Announced(o) ==
  [i \in 1..Len(SelectSeq(Requests(o), LAMBDA e : e.ok)) |->
     <<SelectSeq(Requests(o), LAMBDA e : e.ok)[i].p1,
       SelectSeq(Requests(o), LAMBDA e : e.ok)[i].p2>>]

RequestFailed(o) == \E i \in 1..Len(Requests(o)) : ~Requests(o)[i].ok

\* the data event of w delivers a fresh chunk of the transfer, whole
ProperDelivery(w) ==
  /\ sess.proper
  /\ w.ev.a < expected_chunks_
  /\ w.ev.a + 1 \notin DOMAIN sess.got
  /\ Len(w.ev.payload) =
       ProperLen(w.ev.a, total_size_, chunk_size_, expected_chunks_)

\* the data event of w was accepted outside the window requested
OutOfWindow(w) ==
  /\ w.total_chunks_received_ > total_chunks_received_
  /\ (w.ev.a < current_request_start_ \/ w.ev.a > current_request_end_)

\* the history of the transfer after the event that leaves the world w
TransferAfter(w) ==
  IF w.status_ = "IDLE" THEN NoSession
  ELSE IF w.ev.kind = "init"
  THEN [NoSession EXCEPT !.proper = (w.status_ = "REQUESTING_CHUNKS"),
                         !.windows = Announced(w.out)]
  ELSE IF w.ev.kind = "data"
  THEN [lens |-> <<>>,
        proper |-> ProperDelivery(w),
        got |-> IF ProperDelivery(w)
                THEN (w.ev.a + 1 :> w.ev.payload) @@ sess.got ELSE <<>>,
        req_failed |-> ProperDelivery(w)
                       /\ (sess.req_failed \/ RequestFailed(w.out)),
        windows |-> IF w.status_ = "ERROR" THEN <<>>
                    ELSE sess.windows \o Announced(w.out),
        inwin |-> (w.status_ = "ERROR" \/ (sess.inwin /\ ~OutOfWindow(w)))]
  ELSE [NoSession EXCEPT
          !.windows = IF w.status_ = "ERROR" THEN <<>> ELSE sess.windows,
          !.inwin = (w.status_ = "ERROR" \/ sess.inwin)]

\* the lengths stored after the event that leaves the world w: none with a
\* new receipt map or with none, one more when the counters have moved
LensAfter(w) ==
  IF w.chunk_received_map_ = 0 THEN <<>>
  ELSE IF w.ev.kind = "init" /\ (\E i \in 1..Len(w.out) : w.out[i].t = "calloc")
  THEN <<>>
  ELSE IF w.ev.kind = "data"
          /\ (w.total_chunks_received_ # total_chunks_received_
              \/ w.received_size_ # received_size_)
  THEN (w.ev.a + 1 :> Len(w.ev.payload)) @@ sess.lens
  ELSE sess.lens

\* the history after the event that leaves the world w
SessAfter(w) == [TransferAfter(w) EXCEPT !.lens = LensAfter(w)]

\* the world a handler leaves becomes the next state
Commit(world) ==
  \E w \in {world} :
    /\ control_char_handle_' = w.control_char_handle_
    /\ data_char_handle_' = w.data_char_handle_
    /\ control_notify_handle_' = w.control_notify_handle_
    /\ data_notify_handle_' = w.data_notify_handle_
    /\ conn_id_' = w.conn_id_
    /\ mtu_' = w.mtu_
    /\ control_notifications_enabled_' = w.control_notifications_enabled_
    /\ data_notifications_enabled_' = w.data_notifications_enabled_
    /\ char_count_' = w.char_count_
    /\ descr_count_' = w.descr_count_
    /\ char_creation_state_' = w.char_creation_state_
    /\ status_' = w.status_
    /\ sequence_number_' = w.sequence_number_
    /\ total_size_' = w.total_size_
    /\ chunk_size_' = w.chunk_size_
    /\ expected_chunks_' = w.expected_chunks_
    /\ image_buffer_' = w.image_buffer_
    /\ received_size_' = w.received_size_
    /\ next_expected_chunk_' = w.next_expected_chunk_
    /\ chunk_received_map_' = w.chunk_received_map_
    /\ current_request_start_' = w.current_request_start_
    /\ current_request_end_' = w.current_request_end_
    /\ chunks_per_request_' = w.chunks_per_request_
    /\ total_chunks_received_' = w.total_chunks_received_
    /\ current_batch_received_' = w.current_batch_received_
    /\ image_callback_' = w.image_callback_
    /\ adv_config_done_' = w.adv_config_done_
    /\ gap' = w.gap
    /\ heap' = w.heap
    /\ maps' = w.maps
    /\ pending' = w.pending
    /\ attrs' = w.attrs
    /\ consumer_buf' = w.consumer_buf
    /\ fault' = w.fault
    /\ ev' = w.ev
    /\ out' = w.out
    /\ sess' = SessAfter(w)

\* F applied to the value of v
Then(v, F(_)) == CHOOSE r \in {F(x) : x \in {v}} : TRUE

\* An event: its kind and what it carries.
\*   "init":    a, b, c = param1, param2, param3 of the TRANSFER_INIT
\*   "control": a = the command byte, b = the length of the write
\*   "data":    a = chunk_id, b = data_length of the header, and the payload
\*   "cccd":    a = the length of the write, b = bit 0 of its first byte
Ev(kind) == [kind |-> kind, a |-> 0, b |-> 0, c |-> 0, payload |-> <<>>]

\* an event starts: nothing emitted yet
Begin(w, e) == [w EXCEPT !.ev = e, !.out = <<>>]

(***************************************************************************)
(* Effects: what a handler hands to the world outside the object.          *)
(***************************************************************************)
Effect(t) ==
  [t |-> t, cmd |-> 0, seq |-> 0, p1 |-> 0, p2 |-> 0,
   handed |-> FALSE, ok |-> FALSE, data |-> <<>>, st |-> ""]

\* the call e is made; st is the status_ the object has at the time
Emit(w, e) == [w EXCEPT !.out = Append(@, [e EXCEPT !.st = w.status_])]

\* the undefined behaviour a handler runs into is kept; the first one wins
Fault(world, what) ==
  Then(world, LAMBDA w : IF w.fault = "none" THEN [w EXCEPT !.fault = what] ELSE w)

(***************************************************************************)
(* The heap.  A block is "unused" until malloc/calloc returns it, "live"   *)
(* until free, and "freed" from then on; ids are never reused, so a stale  *)
(* pointer is visible as a pointer to a freed block.                       *)
(***************************************************************************)
NoBlock ==
  [st |-> "unused", size |-> 0, data |-> <<>>, handed |-> FALSE, freed_in |-> "none"]

NoMap == [st |-> "unused", n |-> 0, got |-> {}]

\* the block malloc returns next (0: the model's blocks are used up)
FreshBuf(h) ==
  IF \E i \in BufIds : h[i].st = "unused"
  THEN CHOOSE i \in BufIds : h[i].st = "unused" /\ \A j \in BufIds : h[j].st = "unused" => i <= j
  ELSE 0

\* free(p) of an image buffer
FreeBuf(world, p) ==
  Then(world, LAMBDA w :
    IF w.heap[p].st = "live"
    THEN [Emit(w, [Effect("free") EXCEPT !.p1 = p, !.handed = w.heap[p].handed])
            EXCEPT !.heap[p].st = "freed", !.heap[p].data = <<>>,
                   !.heap[p].freed_in = w.ctx]
    ELSE Fault(w, "double_free"))

\* free(p) of a receipt map
FreeMap(world, p) ==
  Then(world, LAMBDA w :
    IF w.maps[p].st = "live"
    THEN [Emit(w, [Effect("free_map") EXCEPT
                     !.p1 = p, !.p2 = Cardinality(w.maps[p].got)])
            EXCEPT !.maps[p].st = "freed", !.maps[p].got = {}]
    ELSE Fault(w, "double_free"))

(***************************************************************************)
(* ImageService::release_image_buffer (image_service.cpp:84-92)            *)
(***************************************************************************)
\* release_image_buffer that keeps the pointer to the freed block
release_image_buffer_Dangling(world) ==
  Then(world, LAMBDA w :
    IF w.image_buffer_ # 0 THEN FreeBuf(w, w.image_buffer_) ELSE w)

release_image_buffer(world) ==
  Then(world, LAMBDA w :
    IF w.image_buffer_ # 0
    THEN [FreeBuf(w, w.image_buffer_) EXCEPT !.image_buffer_ = 0]
    ELSE w)

\* release_chunk_map that drops the pointer without freeing the map
release_chunk_map_Leak(world) ==
  [world EXCEPT !.chunk_received_map_ = 0]

\* reset_transfer's release of the receipt map (image_service.cpp:98-101)
release_chunk_map(world) ==
  Then(world, LAMBDA w :
    IF w.chunk_received_map_ # 0
    THEN [FreeMap(w, w.chunk_received_map_) EXCEPT !.chunk_received_map_ = 0]
    ELSE w)

(***************************************************************************)
(* ImageService::reset_transfer (image_service.cpp:94-115)                 *)
(***************************************************************************)
\* reset_transfer that starts the numbering of control messages again
reset_transfer_Renumber(world) ==
  [release_chunk_map(release_image_buffer(world))
     EXCEPT !.total_size_ = 0,
            !.chunk_size_ = 0,
            !.expected_chunks_ = 0,
            !.received_size_ = 0,
            !.next_expected_chunk_ = 0,
            !.current_request_start_ = 0,
            !.current_request_end_ = 0,
            !.total_chunks_received_ = 0,
            !.current_batch_received_ = 0,
            !.sequence_number_ = 0,
            !.status_ = "IDLE"]

reset_transfer(world) ==
  [release_chunk_map(release_image_buffer(world))
     EXCEPT !.total_size_ = 0,
            !.chunk_size_ = 0,
            !.expected_chunks_ = 0,
            !.received_size_ = 0,
            !.next_expected_chunk_ = 0,
            !.current_request_start_ = 0,
            !.current_request_end_ = 0,
            !.total_chunks_received_ = 0,
            !.current_batch_received_ = 0,
            !.status_ = "IDLE"]

(***************************************************************************)
(* ImageService::send_control_notification (image_service.cpp:693-722).    *)
(* txok is what esp_ble_gatts_send_indicate returns (ESP_OK or not).       *)
(***************************************************************************)
\* send_control_notification that does not look at the notification flag
send_control_notification_Unasked(world, msg, txok) ==
  Then(world, LAMBDA w :
    IF w.control_char_handle_ = 0
    THEN [Emit(w, msg) EXCEPT !.ret = FALSE]
    ELSE [Emit(w, [msg EXCEPT !.handed = TRUE, !.ok = txok]) EXCEPT !.ret = txok])

send_control_notification(world, msg, txok) ==
  Then(world, LAMBDA w :
    IF w.control_char_handle_ = 0
    THEN [Emit(w, msg) EXCEPT !.ret = FALSE]
    ELSE IF ~w.control_notifications_enabled_
    THEN [Emit(w, msg) EXCEPT !.ret = FALSE]
    ELSE [Emit(w, [msg EXCEPT !.handed = TRUE, !.ok = txok]) EXCEPT !.ret = txok])

\* a ControlMessage built by one of the send_ functions
ControlMessage(cmd, seq, p1, p2) ==
  [Effect("tx") EXCEPT !.cmd = cmd, !.seq = seq, !.p1 = p1, !.p2 = p2]

(***************************************************************************)
(* ImageService::send_chunk_request (image_service.cpp:725-777)            *)
(***************************************************************************)
\* send_chunk_request that keeps the window counter of the previous window
send_chunk_request_KeepCount(world, start_chunk, num_chunks, txok) ==
  Then(world, LAMBDA w :
  Then(send_control_notification(
         [w EXCEPT !.sequence_number_ = U16(@ + 1),
                   !.current_request_start_ = start_chunk,
                   !.current_request_end_ = U16(start_chunk + num_chunks - 1)],
         ControlMessage(CHUNK_REQUEST, U16(w.sequence_number_ + 1),
                        start_chunk, num_chunks),
         txok), LAMBDA w1 :
    IF w1.ret THEN [w1 EXCEPT !.status_ = "REQUESTING_CHUNKS"] ELSE w1))

send_chunk_request(world, start_chunk, num_chunks, txok) ==
  Then(world, LAMBDA w :
  Then(send_control_notification(
         [w EXCEPT !.sequence_number_ = U16(@ + 1),
                   !.current_request_start_ = start_chunk,
                   !.current_request_end_ = U16(start_chunk + num_chunks - 1),
                   !.current_batch_received_ = 0],
         ControlMessage(CHUNK_REQUEST, U16(w.sequence_number_ + 1),
                        start_chunk, num_chunks),
         txok), LAMBDA w1 :
    IF w1.ret THEN [w1 EXCEPT !.status_ = "REQUESTING_CHUNKS"] ELSE w1))

(***************************************************************************)
(* ImageService::send_transfer_complete_ack (image_service.cpp:779-788)    *)
(***************************************************************************)
send_transfer_complete_ack(world, received_size, txok) ==
  Then(world, LAMBDA w :
    send_control_notification(
      [w EXCEPT !.sequence_number_ = U16(@ + 1)],
      ControlMessage(TRANSFER_COMPLETE_ACK, U16(w.sequence_number_ + 1),
                     received_size, 0),
      txok))

(***************************************************************************)
(* ImageService::send_transfer_error (image_service.cpp:790-801)           *)
(***************************************************************************)
send_transfer_error(world, error_code, txok) ==
  Then(world, LAMBDA w :
    send_control_notification(
      [w EXCEPT !.sequence_number_ = U16(@ + 1)],
      ControlMessage(TRANSFER_ERROR, U16(w.sequence_number_ + 1), error_code, 0),
      txok))

\* handle_transfer_init's parameter checks (image_service.cpp:437-449): the
\* error code of the limit the parameters pass, 0 if none
\* InitRejection without the limit on chunk_size
InitRejection_NoChunkLimit(msg) ==
  IF msg.param1 > MAX_TRANSFER_SIZE THEN TRANSFER_TOO_LARGE ELSE 0

InitRejection(msg) ==
  IF msg.param1 > MAX_TRANSFER_SIZE THEN TRANSFER_TOO_LARGE
  ELSE IF msg.param2 > MAX_MTU_SIZE - DATA_HEADER_SIZE THEN CHUNK_SIZE_TOO_LARGE
  ELSE 0

\* handle_transfer_init, image_service.cpp:451-457: the previous transfer is
\* reset and the parameters are stored
\* store_parameters over the previous transfer, without reset_transfer
store_parameters_NoReset(world, msg) ==
  [world EXCEPT !.total_size_ = msg.param1,
                !.chunk_size_ = msg.param2,
                !.expected_chunks_ = msg.param3]

store_parameters(world, msg) ==
  [reset_transfer(world) EXCEPT !.total_size_ = msg.param1,
                                !.chunk_size_ = msg.param2,
                                !.expected_chunks_ = msg.param3]

\* handle_transfer_init, image_service.cpp:460: malloc(total_size_); bufok:
\* malloc returns a block
allocate_buffer(world, bufok) ==
  Then(world, LAMBDA w :
    IF bufok /\ FreshBuf(w.heap) # 0
    THEN [Emit(w, [Effect("malloc") EXCEPT !.p1 = FreshBuf(w.heap)])
            EXCEPT !.image_buffer_ = FreshBuf(w.heap),
                   !.heap[FreshBuf(w.heap)] =
                      [NoBlock EXCEPT !.st = "live",
                                      !.size = w.total_size_,
                                      !.data = [i \in 1..w.total_size_ |-> UNINIT]]]
    ELSE [w EXCEPT !.image_buffer_ = 0])

\* handle_transfer_init, image_service.cpp:469: calloc(expected_chunks_, 1);
\* the receipt map of the model carries its buffer's id
allocate_chunk_map(world, mapok) ==
  Then(world, LAMBDA w :
    IF mapok
    THEN [Emit(w, [Effect("calloc") EXCEPT !.p1 = w.image_buffer_])
            EXCEPT !.chunk_received_map_ = w.image_buffer_,
                   !.maps[w.image_buffer_] =
                      [st |-> "live", n |-> w.expected_chunks_, got |-> {}]]
    ELSE [w EXCEPT !.chunk_received_map_ = 0])

\* request_first_batch that always asks for a full window
request_first_batch_Full(world, tx1, tx2) ==
  Then([world EXCEPT !.status_ = "INIT_RECEIVED"], LAMBDA w :
  Then(send_chunk_request(w, 0, w.chunks_per_request_, tx1), LAMBDA w1 :
    IF w1.ret
    THEN w1
    ELSE [send_transfer_error(w1, NOTIFICATION_SEND_FAILED, tx2)
            EXCEPT !.status_ = "ERROR"]))

\* handle_transfer_init, image_service.cpp:479-495: the first CHUNK_REQUEST
request_first_batch(world, tx1, tx2) ==
  Then([world EXCEPT !.status_ = "INIT_RECEIVED"], LAMBDA w :
  Then(send_chunk_request(
         w, 0,
         U16(IF w.expected_chunks_ < w.chunks_per_request_
             THEN w.expected_chunks_ ELSE w.chunks_per_request_),
         tx1), LAMBDA w1 :
    IF w1.ret
    THEN w1
    ELSE [send_transfer_error(w1, NOTIFICATION_SEND_FAILED, tx2)
            EXCEPT !.status_ = "ERROR"]))

(***************************************************************************)
(* ImageService::handle_transfer_init (image_service.cpp:432-496).         *)
(* msg: the decoded ControlMessage; bufok, mapok: malloc and calloc        *)
(* return a block; tx1, tx2: results of the first and second send.         *)
(***************************************************************************)
handle_transfer_init(world, msg, bufok, mapok, tx1, tx2) ==
  IF InitRejection(msg) # 0
  THEN [send_transfer_error(world, InitRejection(msg), tx1)
          EXCEPT !.status_ = "ERROR"]
  ELSE
    Then(allocate_buffer(store_parameters(world, msg), bufok), LAMBDA w1 :
      IF w1.image_buffer_ = 0
      THEN [send_transfer_error(w1, MEMORY_ALLOCATION_FAILED, tx1)
              EXCEPT !.status_ = "ERROR"]
      ELSE
        Then(allocate_chunk_map(w1, mapok), LAMBDA w2 :
          IF w2.chunk_received_map_ = 0
          THEN [send_transfer_error(
                  [FreeBuf(w2, w2.image_buffer_) EXCEPT !.image_buffer_ = 0],
                  MEMORY_ALLOCATION_FAILED, tx1)
                  EXCEPT !.status_ = "ERROR"]
          ELSE request_first_batch(w2, tx1, tx2)))

(***************************************************************************)
(* ImageService::handle_control_message (image_service.cpp:409-430).       *)
(* m.len is the length of the write; the fields are those of the packed    *)
(* ControlMessage read from its first 20 bytes.                            *)
(***************************************************************************)
\* handle_control_message in which an unknown command ends the session
handle_control_message_Fatal(world, m, bufok, mapok, tx1, tx2) ==
  IF m.len < CONTROL_MSG_SIZE
  THEN send_transfer_error(world, CONTROL_MESSAGE_TOO_SHORT, tx1)
  ELSE IF m.command = TRANSFER_INIT
  THEN handle_transfer_init(world, m, bufok, mapok, tx1, tx2)
  ELSE Then(send_transfer_error(world, INVALID_COMMAND, tx1), LAMBDA w :
         [w EXCEPT !.status_ = "ERROR"])

\* handle_control_message that takes a message one byte short
handle_control_message_OneShort(world, m, bufok, mapok, tx1, tx2) ==
  IF m.len < CONTROL_MSG_SIZE - 1
  THEN send_transfer_error(world, CONTROL_MESSAGE_TOO_SHORT, tx1)
  ELSE IF m.command = TRANSFER_INIT
  THEN handle_transfer_init(world, m, bufok, mapok, tx1, tx2)
  ELSE send_transfer_error(world, INVALID_COMMAND, tx1)

handle_control_message(world, m, bufok, mapok, tx1, tx2) ==
  IF m.len < CONTROL_MSG_SIZE
  THEN send_transfer_error(world, CONTROL_MESSAGE_TOO_SHORT, tx1)
  ELSE IF m.command = TRANSFER_INIT
  THEN handle_transfer_init(world, m, bufok, mapok, tx1, tx2)
  ELSE send_transfer_error(world, INVALID_COMMAND, tx1)

\* image_buffer_[i] as validate_jpeg_header reads it; u is the value an
\* uninitialised cell happens to hold
ReadByte(w, i, u) ==
  IF i < Len(w.heap[w.image_buffer_].data)
     /\ w.heap[w.image_buffer_].data[i + 1] # UNINIT
  THEN w.heap[w.image_buffer_].data[i + 1]
  ELSE u

(***************************************************************************)
(* ImageService::validate_jpeg_header (image_service.cpp:403-405).         *)
(* The && chain reads image_buffer_[0] only when received_size_ >= 2 and   *)
(* image_buffer_[1] only when image_buffer_[0] is 0xFF; a read past the    *)
(* end of the block or through a null pointer is undefined behaviour.      *)
(***************************************************************************)
validate_jpeg_header(world, u0, u1) ==
  Then(world, LAMBDA w :
    IF w.received_size_ < 2
    THEN [w EXCEPT !.ret = FALSE]
    ELSE IF w.image_buffer_ = 0
    THEN [Fault(w, "null_read") EXCEPT !.ret = FALSE]
    ELSE IF w.heap[w.image_buffer_].size < 1
    THEN [Fault(w, "oob_read") EXCEPT !.ret = (u0 = JPEG_SOI_0 /\ u1 = JPEG_SOI_1)]
    ELSE IF ReadByte(w, 0, u0) # JPEG_SOI_0
    THEN [w EXCEPT !.ret = FALSE]
    ELSE IF w.heap[w.image_buffer_].size < 2
    THEN [Fault(w, "oob_read") EXCEPT !.ret = (u1 = JPEG_SOI_1)]
    ELSE [w EXCEPT !.ret = (ReadByte(w, 1, u1) = JPEG_SOI_1)])

(***************************************************************************)
(* The registered ImageTransferCallback (image_service.h:45-48): the       *)
(* consumer gets the buffer.  With release_now it calls                    *)
(* release_image_buffer() before it returns, as the example application    *)
(* does (examples/main/ble_server.cpp:74-76); otherwise it keeps the       *)
(* pointer and releases later.                                             *)
(***************************************************************************)
image_callback(world, image_data, size, is_valid_jpeg, release_now) ==
  Then(world, LAMBDA w :
  Then([Emit(w, [Effect("callback") EXCEPT
                   !.p1 = size, !.p2 = image_data, !.ok = is_valid_jpeg,
                   !.data = w.heap[image_data].data])
          EXCEPT !.heap[image_data].handed = TRUE], LAMBDA w1 :
    IF release_now
    THEN [release_image_buffer([w1 EXCEPT !.ctx = "consumer"])
            EXCEPT !.ctx = w.ctx]
    ELSE [w1 EXCEPT !.consumer_buf = image_data]))

\* memcpy(image_buffer_ + offset, payload, n) on the block's cells
MemCopy(d, offset, payload, n) ==
  [i \in 1..Len(d) |->
     IF i > offset /\ i <= offset + n THEN payload[i - offset] ELSE d[i]]

\* handle_data_chunk, image_service.cpp:551-564: the payload length the
\* handler works with is the one the write has, whatever the header states
\* DataLength that trusts the header
DataLength_Claimed(c) == c.data_length

\* DataLength that takes the header's word when it states less than the
\* write carries
DataLength_AtMost(c) == Min(c.data_length, U16(c.len - DATA_HEADER_SIZE))

DataLength(c) ==
  IF c.data_length # U16(c.len - DATA_HEADER_SIZE)
  THEN U16(c.len - DATA_HEADER_SIZE)
  ELSE c.data_length

\* ChunkOffset with the chunk id taken for the offset
ChunkOffset_Unscaled(w, c) == c.chunk_id

\* handle_data_chunk, image_service.cpp:579: where the chunk goes
\* ChunkOffset that packs the chunks one behind the other as they arrive
ChunkOffset_Packed(w, c) == w.received_size_

ChunkOffset(w, c) == c.chunk_id * w.chunk_size_

\* handle_data_chunk's checks of an active session (image_service.cpp:519-586):
\* the error code of the first check the chunk fails, 0 if it passes all
\* ChunkRejection without the look into the receipt map
ChunkRejection_NoDuplicate(w, c) ==
  IF c.len < DATA_HEADER_SIZE THEN DATA_CHUNK_TOO_SHORT
  ELSE IF c.chunk_id >= w.expected_chunks_ THEN INVALID_CHUNK_ID
  ELSE IF ChunkOffset(w, c) + DataLength(c) > w.total_size_ THEN BUFFER_OVERFLOW
  ELSE 0

\* ChunkRejection that takes the first id past the last chunk
ChunkRejection_OffByOne(w, c) ==
  IF c.len < DATA_HEADER_SIZE THEN DATA_CHUNK_TOO_SHORT
  ELSE IF c.chunk_id > w.expected_chunks_ THEN INVALID_CHUNK_ID
  ELSE IF c.chunk_id \in w.maps[w.chunk_received_map_].got THEN DUPLICATE_CHUNK
  ELSE IF ChunkOffset(w, c) + DataLength(c) > w.total_size_ THEN BUFFER_OVERFLOW
  ELSE 0

\* ChunkRejection with the bounds check ahead of the duplicate check
ChunkRejection_OverflowFirst(w, c) ==
  IF c.len < DATA_HEADER_SIZE THEN DATA_CHUNK_TOO_SHORT
  ELSE IF c.chunk_id >= w.expected_chunks_ THEN INVALID_CHUNK_ID
  ELSE IF ChunkOffset(w, c) + DataLength(c) > w.total_size_ THEN BUFFER_OVERFLOW
  ELSE IF c.chunk_id \in w.maps[w.chunk_received_map_].got THEN DUPLICATE_CHUNK
  ELSE 0

ChunkRejection(w, c) ==
  IF c.len < DATA_HEADER_SIZE THEN DATA_CHUNK_TOO_SHORT
  ELSE IF c.chunk_id >= w.expected_chunks_ THEN INVALID_CHUNK_ID
  ELSE IF c.chunk_id \in w.maps[w.chunk_received_map_].got THEN DUPLICATE_CHUNK
  ELSE IF ChunkOffset(w, c) + DataLength(c) > w.total_size_ THEN BUFFER_OVERFLOW
  ELSE 0

\* handle_data_chunk, image_service.cpp:592-605: the chunk is stored and counted
store_chunk(world, c) ==
  Then(world, LAMBDA w :
    IF w.image_buffer_ = 0
    THEN Fault(w, "null_write")
    ELSE IF w.heap[w.image_buffer_].st # "live"
    THEN Fault(w, "use_after_free")
    ELSE [w EXCEPT
            !.heap[w.image_buffer_].data =
               MemCopy(@, ChunkOffset(w, c), c.payload, DataLength(c)),
            !.maps[w.chunk_received_map_].got = @ \cup {c.chunk_id},
            !.received_size_ = @ + DataLength(c),
            !.total_chunks_received_ = @ + 1,
            !.current_batch_received_ =
               IF c.chunk_id >= w.current_request_start_
                  /\ c.chunk_id <= w.current_request_end_
               THEN U16(@ + 1) ELSE @,
            !.status_ = "RECEIVING"])

\* handle_data_chunk, image_service.cpp:629-636: the consumer is told
notify_consumer(world, u0, u1, release_now) ==
  Then(world, LAMBDA w :
    IF w.image_callback_
    THEN Then(validate_jpeg_header(w, u0, u1), LAMBDA v :
           image_callback(v, v.image_buffer_, v.received_size_, v.ret,
                          release_now))
    ELSE w)

\* complete_transfer that tells the consumer ahead of the acknowledgment
complete_transfer_CallbackFirst(world, u0, u1, release_now, tx1) ==
  Then([validate_jpeg_header(world, u0, u1) EXCEPT !.status_ = "COMPLETE"],
       LAMBDA w1 :
  Then(notify_consumer(w1, u0, u1, release_now), LAMBDA w2 :
  Then(send_transfer_complete_ack(w2, w2.received_size_, tx1), LAMBDA w3 :
    Emit(w3, [Effect("close") EXCEPT !.p1 = w3.conn_id_]))))

\* handle_data_chunk, image_service.cpp:608-646: the last chunk has arrived
complete_transfer(world, u0, u1, release_now, tx1) ==
  Then([validate_jpeg_header(world, u0, u1) EXCEPT !.status_ = "COMPLETE"],
       LAMBDA w1 :
  Then(notify_consumer(
         send_transfer_complete_ack(w1, w1.received_size_, tx1),
         u0, u1, release_now), LAMBDA w2 :
    Emit(w2, [Effect("close") EXCEPT !.p1 = w2.conn_id_])))

\* handle_data_chunk, image_service.cpp:649-653
ExpectedBatchSize(w) ==
  U16(IF w.current_request_end_ >= w.expected_chunks_
      THEN w.expected_chunks_ - w.current_request_start_
      ELSE w.current_request_end_ - w.current_request_start_ + 1)

\* NextBatchDue that is satisfied one chunk before the window is full
NextBatchDue_Early(w) ==
  /\ w.current_batch_received_ + 1 >= ExpectedBatchSize(w)
  /\ w.current_request_end_ + 1 < w.expected_chunks_

\* NextBatchDue that wants more chunks than the window has
NextBatchDue_Strict(w) ==
  /\ w.current_batch_received_ > ExpectedBatchSize(w)
  /\ w.current_request_end_ + 1 < w.expected_chunks_

\* handle_data_chunk, image_service.cpp:671
NextBatchDue(w) ==
  /\ w.current_batch_received_ >= ExpectedBatchSize(w)
  /\ w.current_request_end_ + 1 < w.expected_chunks_

\* handle_data_chunk, image_service.cpp:672-675
\* NextRequestSize that always asks for a full window
NextRequestSize_Full(w) == w.chunks_per_request_

NextRequestSize(w) ==
  Min(U16(w.expected_chunks_ - U16(w.current_request_end_ + 1)),
      w.chunks_per_request_)

\* handle_data_chunk, image_service.cpp:647-690: chunks are still missing
request_next_batch(world, tx1, tx2) ==
  Then(world, LAMBDA w :
    IF NextBatchDue(w)
    THEN Then(send_chunk_request(
                w, U16(w.current_request_end_ + 1), NextRequestSize(w), tx1),
              LAMBDA w1 :
           IF w1.ret
           THEN w1
           ELSE [send_transfer_error(w1, NOTIFICATION_SEND_FAILED, tx2)
                   EXCEPT !.status_ = "ERROR"])
    ELSE w)

\* handle_data_chunk, image_service.cpp:608
\* TransferComplete that waits for the window to be full as well
TransferComplete_WindowFull(w) ==
  /\ w.total_chunks_received_ >= w.expected_chunks_
  /\ w.current_batch_received_ >= ExpectedBatchSize(w)

\* TransferComplete one chunk early
TransferComplete_Early(w) == w.total_chunks_received_ + 1 >= w.expected_chunks_

TransferComplete(w) == w.total_chunks_received_ >= w.expected_chunks_

(***************************************************************************)
(* ImageService::handle_data_chunk (image_service.cpp:498-691).            *)
(* c: the write (len, and for len >= 4 the header fields chunk_id and      *)
(* data_length and the payload behind them); u0, u1: the values            *)
(* uninitialised buffer cells 0 and 1 hold; release_now: what the          *)
(* consumer does in the callback; tx1, tx2: results of the sends.          *)
(***************************************************************************)
\* TakesChunks that lets chunks through after completion as well
TakesChunks_AlsoComplete(w) ==
  w.status_ \in {"REQUESTING_CHUNKS", "RECEIVING", "COMPLETE"}

\* handle_data_chunk, image_service.cpp:499-502: the status guard
TakesChunks(w) == w.status_ \in {"REQUESTING_CHUNKS", "RECEIVING"}

handle_data_chunk(world, c, u0, u1, release_now, tx1, tx2) ==
  Then(world, LAMBDA w :
    IF ~TakesChunks(w)
    THEN w
    ELSE IF c.len >= DATA_HEADER_SIZE /\ c.chunk_id < w.expected_chunks_
            /\ w.chunk_received_map_ = 0
    THEN Fault(w, "null_read")
    ELSE IF ChunkRejection(w, c) # 0
    THEN send_transfer_error(w, ChunkRejection(w, c), tx1)
    ELSE
      Then(store_chunk(w, c), LAMBDA w1 :
        IF w1.fault # "none"
        THEN w1
        ELSE IF TransferComplete(w1)
        THEN complete_transfer(w1, u0, u1, release_now, tx1)
        ELSE request_next_batch(w1, tx1, tx2)))

(***************************************************************************)
(* The stack's side of a creation request: an accepted request is answered *)
(* later by one event, in the order of the requests.                       *)
(***************************************************************************)
Request(world, what, accepted) ==
  Then(Emit(world, [Effect(what) EXCEPT !.ok = accepted]), LAMBDA w :
    IF accepted THEN [w EXCEPT !.pending = Append(@, what)] ELSE w)

\* the attributes of a service just registered; base counts the handles the
\* stack gave to earlier registrations
NoAttrs(base) == [control |-> 0, cccd |-> 0, data |-> 0, base |-> base]

\* the handle the stack gives the next attribute it creates
NextHandle(a) ==
  FirstHandle + a.base + 1
    + Cardinality({k \in {"control", "cccd", "data"} : a[k] # 0})

(***************************************************************************)
(* ImageService::handle_reg_event (image_service.cpp:117-141)              *)
(***************************************************************************)
\* handle_reg_event that keeps the creation counters
handle_reg_event_KeepCounters(world, accepted) ==
  Request([world EXCEPT !.char_creation_state_ = "WAITING_FOR_CONTROL",
                        !.control_char_handle_ = 0,
                        !.data_char_handle_ = 0,
                        !.control_notify_handle_ = 0,
                        !.data_notify_handle_ = 0],
          "create_service", accepted)

handle_reg_event(world, accepted) ==
  Request([world EXCEPT !.char_count_ = 0,
                        !.descr_count_ = 0,
                        !.char_creation_state_ = "WAITING_FOR_CONTROL",
                        !.control_char_handle_ = 0,
                        !.data_char_handle_ = 0,
                        !.control_notify_handle_ = 0,
                        !.data_notify_handle_ = 0],
          "create_service", accepted)

(***************************************************************************)
(* ImageService::handle_create_event (image_service.cpp:143-212).          *)
(* status_ok: param->create.status; start_ok: esp_ble_gatts_start_service; *)
(* accepted: esp_ble_gatts_add_char returns ESP_OK.                        *)
(***************************************************************************)
handle_create_event(world, status_ok, start_ok, accepted) ==
  IF ~status_ok THEN world
  ELSE IF ~start_ok THEN world
  ELSE Request([world EXCEPT !.char_creation_state_ = "WAITING_FOR_CONTROL"],
               "add_control_char", accepted)

(***************************************************************************)
(* ImageService::create_data_characteristic (image_service.cpp:812-855)    *)
(***************************************************************************)
\* create_data_characteristic that leaves the setup state where it is
create_data_characteristic_SameState(world, accepted) ==
  Request(world, "add_data_char", accepted)

create_data_characteristic(world, accepted) ==
  Request([world EXCEPT !.char_creation_state_ = "WAITING_FOR_DATA"],
          "add_data_char", accepted)

(***************************************************************************)
(* ImageService::handle_add_char_event (image_service.cpp:214-276)         *)
(***************************************************************************)
\* handle_add_char_event that does not look at the status of the event
handle_add_char_event_AnyStatus(world, status_ok, attr_handle, accepted) ==
  Then([world EXCEPT !.char_count_ = @ + 1], LAMBDA w :
    IF w.char_creation_state_ = "WAITING_FOR_CONTROL"
    THEN Request([w EXCEPT !.control_char_handle_ = attr_handle,
                           !.char_creation_state_ = "WAITING_FOR_CONTROL_CCCD"],
                 "add_char_descr", accepted)
    ELSE IF w.char_creation_state_ = "WAITING_FOR_DATA"
    THEN [w EXCEPT !.data_char_handle_ = attr_handle,
                   !.char_creation_state_ = "BOTH_CREATED"]
    ELSE w)

handle_add_char_event(world, status_ok, attr_handle, accepted) ==
  IF ~status_ok THEN world
  ELSE
    Then([world EXCEPT !.char_count_ = @ + 1], LAMBDA w :
      IF w.char_creation_state_ = "WAITING_FOR_CONTROL"
      THEN Request([w EXCEPT !.control_char_handle_ = attr_handle,
                             !.char_creation_state_ = "WAITING_FOR_CONTROL_CCCD"],
                   "add_char_descr", accepted)
      ELSE IF w.char_creation_state_ = "WAITING_FOR_DATA"
      THEN [w EXCEPT !.data_char_handle_ = attr_handle,
                     !.char_creation_state_ = "BOTH_CREATED"]
      ELSE w)

(***************************************************************************)
(* ImageService::handle_add_char_descr_event (image_service.cpp:278-308)   *)
(***************************************************************************)
handle_add_char_descr_event(world, status_ok, attr_handle, accepted) ==
  IF ~status_ok THEN world
  ELSE
    Then([world EXCEPT !.descr_count_ = @ + 1], LAMBDA w :
      IF w.descr_count_ = 1
         /\ w.char_creation_state_ = "WAITING_FOR_CONTROL_CCCD"
      THEN create_data_characteristic(
             [w EXCEPT !.control_notify_handle_ = attr_handle], accepted)
      ELSE w)

(***************************************************************************)
(* ImageService::handle_connect_event (image_service.cpp:358-372)          *)
(***************************************************************************)
handle_connect_event(world, conn_id) ==
  Emit([world EXCEPT !.conn_id_ = conn_id], Effect("update_conn_params"))

(***************************************************************************)
(* BLEServer::restart_advertising (ble_server.cpp:107-121), called through *)
(* the singleton; started: the server is initialized and started.          *)
(***************************************************************************)
restart_advertising(world, started) ==
  IF ~started THEN [world EXCEPT !.ret = FALSE]
  ELSE [Emit(world, Effect("start_advertising")) EXCEPT !.ret = TRUE]

(***************************************************************************)
(* ImageService::handle_disconnect_event (image_service.cpp:374-395)       *)
(***************************************************************************)
\* handle_disconnect_event that leaves the notification flags as they are
handle_disconnect_event_KeepFlags(world, started) ==
  restart_advertising(
    [reset_transfer(world) EXCEPT !.mtu_ = DEFAULT_MTU], started)

handle_disconnect_event(world, started) ==
  restart_advertising(
    [reset_transfer(world) EXCEPT !.mtu_ = DEFAULT_MTU,
                                  !.control_notifications_enabled_ = FALSE,
                                  !.data_notifications_enabled_ = FALSE],
    started)

(***************************************************************************)
(* ImageService::handle_mtu_event (image_service.cpp:397-400)              *)
(***************************************************************************)
\* handle_mtu_event that asks again for the window the session waits for
handle_mtu_event_Retry(world, mtu) ==
  Then([world EXCEPT !.mtu_ = mtu], LAMBDA w :
    IF w.status_ \in {"REQUESTING_CHUNKS", "RECEIVING"}
    THEN send_chunk_request(
           w, w.current_request_start_,
           U16(w.current_request_end_ - w.current_request_start_ + 1), TRUE)
    ELSE w)

handle_mtu_event(world, mtu) == [world EXCEPT !.mtu_ = mtu]

\* handle_write_event, image_service.cpp:320-346: the write goes to the
\* handler of the attribute it names
route_write(world, wr, bufok, mapok, u0, u1, release_now, tx1, tx2) ==
  Then(world, LAMBDA w :
    IF wr.handle = w.control_char_handle_
    THEN handle_control_message(w, wr, bufok, mapok, tx1, tx2)
    ELSE IF wr.handle = w.data_char_handle_
    THEN handle_data_chunk(w, wr, u0, u1, release_now, tx1, tx2)
    ELSE IF wr.handle = w.control_notify_handle_
    THEN IF wr.len = 2
         THEN [w EXCEPT !.control_notifications_enabled_ = wr.bit0]
         ELSE w
    ELSE IF wr.handle = w.data_notify_handle_
    THEN IF wr.len = 2
         THEN [w EXCEPT !.data_notifications_enabled_ = wr.bit0]
         ELSE w
    ELSE w)

(***************************************************************************)
(* ImageService::handle_write_event (image_service.cpp:310-355).           *)
(* wr: the write (handle, len, and the value read as a control message,    *)
(* as a data chunk and as a descriptor value: byte 0 bit 0 is wr.bit0).    *)
(***************************************************************************)
handle_write_event(world, wr, bufok, mapok, u0, u1, release_now, tx1, tx2) ==
  IF wr.need_rsp
  THEN Emit(route_write(world, wr, bufok, mapok, u0, u1, release_now, tx1, tx2),
            Effect("send_response"))
  ELSE route_write(world, wr, bufok, mapok, u0, u1, release_now, tx1, tx2)

\* a write event's parameters, with the fields no interpretation reads at 0
Write(handle, len) ==
  [handle |-> handle, len |-> len, need_rsp |-> FALSE, bit0 |-> FALSE,
   command |-> 0, param1 |-> 0, param2 |-> 0, param3 |-> 0,
   chunk_id |-> 0, data_length |-> 0, payload |-> <<>>]

(***************************************************************************)
(* AdvertisingManager (advertising.cpp).  adv_config_done_ is a uint8_t of  *)
(* two flag bits.  init runs in the application's task and                 *)
(* handle_gap_event in the stack's; gap keeps                              *)
(*   pc:      where init stands ("start" before the call, "returned" after),*)
(*   pending: the GAP events the stack has still to deliver, in order,      *)
(*   got:     the configuration events handle_gap_event has taken,          *)
(*   starts:  the calls of esp_ble_gap_start_advertising it has made.       *)
(***************************************************************************)
NoGap == [pc |-> "start", pending |-> <<>>, got |-> {}, starts |-> 0]

\* v &= ~flag
ClearFlag(v, flag) == IF (v \div flag) % 2 = 1 THEN v - flag ELSE v

\* init up to esp_ble_gap_config_adv_data(&adv_data_) (advertising.cpp:16-36);
\* name_ok and ok say whether the two calls to the stack return 0
init_config_adv_data(world, name_ok, ok) ==
  Then(world, LAMBDA w :
    IF ~name_ok THEN [w EXCEPT !.gap.pc = "returned"]
    ELSE IF ~ok
    THEN [Emit(w, Effect("config_adv_data")) EXCEPT !.gap.pc = "returned"]
    ELSE [Emit(w, Effect("config_adv_data")) EXCEPT
            !.gap.pc = "adv_data_configured",
            !.gap.pending = Append(@, "ADV_DATA_SET_COMPLETE")])

\* adv_config_done_ &= (~ADV_CONFIG_FLAG) (advertising.cpp:37)
init_clear_adv_flag(world) ==
  [world EXCEPT !.adv_config_done_ = ClearFlag(@, ADV_CONFIG_FLAG),
                !.gap.pc = "adv_flag_cleared"]

\* esp_ble_gap_config_adv_data(&scan_rsp_data_) (advertising.cpp:40-44)
init_config_scan_rsp(world, ok) ==
  Then(world, LAMBDA w :
    IF ~ok
    THEN [Emit(w, Effect("config_scan_rsp")) EXCEPT !.gap.pc = "returned"]
    ELSE [Emit(w, Effect("config_scan_rsp")) EXCEPT
            !.gap.pc = "scan_rsp_configured",
            !.gap.pending = Append(@, "SCAN_RSP_DATA_SET_COMPLETE")])

\* adv_config_done_ &= (~SCAN_RSP_CONFIG_FLAG) (advertising.cpp:45)
init_clear_scan_rsp_flag(world) ==
  [world EXCEPT !.adv_config_done_ = ClearFlag(@, SCAN_RSP_CONFIG_FLAG),
                !.gap.pc = "returned"]

\* esp_ble_gap_start_advertising as handle_gap_event calls it; the stack
\* answers with ESP_GAP_BLE_ADV_START_COMPLETE_EVT
start_after_config(world) ==
  [Emit(world, Effect("start_advertising")) EXCEPT
     !.gap.starts = @ + 1,
     !.gap.pending = Append(@, "ADV_START_COMPLETE")]

\* the flag a configuration event clears
FlagOf(event) ==
  IF event = "ADV_DATA_SET_COMPLETE" THEN ADV_CONFIG_FLAG ELSE SCAN_RSP_CONFIG_FLAG

\* AdvertisingManager::handle_gap_event (advertising.cpp:48-98)
handle_gap_event(world, event) ==
  Then(world, LAMBDA w :
    IF event \in {"ADV_DATA_SET_COMPLETE", "SCAN_RSP_DATA_SET_COMPLETE"}
    THEN Then([w EXCEPT !.adv_config_done_ = ClearFlag(@, FlagOf(event)),
                        !.gap.got = @ \cup {event}],
              LAMBDA x : IF x.adv_config_done_ = 0 THEN start_after_config(x)
                         ELSE x)
    ELSE w)

(***************************************************************************)
(* Initial state: the constructor (image_service.cpp:29-43); the           *)
(* application has asked the stack to register the service                 *)
(* (BLEServer::register_services, ble_server.cpp:247-259).                 *)
(***************************************************************************)
Init ==
  /\ control_char_handle_ = 0
  /\ data_char_handle_ = 0
  /\ control_notify_handle_ = 0
  /\ data_notify_handle_ = 0
  /\ conn_id_ = 0
  /\ mtu_ = DEFAULT_MTU
  /\ control_notifications_enabled_ = FALSE
  /\ data_notifications_enabled_ = FALSE
  /\ char_count_ = 0
  /\ descr_count_ = 0
  /\ char_creation_state_ = "WAITING_FOR_CONTROL"
  /\ status_ = "IDLE"
  /\ sequence_number_ = 0
  /\ total_size_ = 0
  /\ chunk_size_ = 0
  /\ expected_chunks_ = 0
  /\ image_buffer_ = 0
  /\ received_size_ = 0
  /\ next_expected_chunk_ = 0
  /\ chunk_received_map_ = 0
  /\ current_request_start_ = 0
  /\ current_request_end_ = 0
  /\ chunks_per_request_ = DEFAULT_CHUNKS_PER_REQUEST
  /\ total_chunks_received_ = 0
  /\ current_batch_received_ = 0
  /\ image_callback_ = FALSE
  /\ adv_config_done_ = ADV_CONFIG_FLAG + SCAN_RSP_CONFIG_FLAG
  /\ gap = NoGap
  /\ heap = [i \in BufIds |-> NoBlock]
  /\ maps = [i \in BufIds |-> NoMap]
  /\ alive = TRUE
  /\ connected = FALSE
  /\ pending = <<"register">>
  /\ attrs = NoAttrs(0)
  /\ consumer_buf = 0
  /\ fault = "none"
  /\ ev = Ev("construct")
  /\ out = <<>>
  /\ sess = NoSession

\* the object exists and no handler has run into undefined behaviour
Running == alive /\ fault = "none"

\* the model takes a write that may send n messages while sequence_number_
\* stays within MaxSeq, or is within MaxSeq of the end of its 16 bits
CanSend(n) ==
  IF sequence_number_ + n <= MaxSeq THEN TRUE
  ELSE sequence_number_ > 65535 - MaxSeq

\* what esp_ble_gatts_send_indicate may return for the next message; it is
\* not called when send_control_notification refuses the message
TxResults ==
  IF control_char_handle_ # 0 /\ control_notifications_enabled_
  THEN BOOLEAN ELSE {FALSE}

\* the result of a second send matters only after a first one that failed
Tx2Results(tx1) == IF tx1 THEN {FALSE} ELSE TxResults

(***************************************************************************)
(* Actions: the application's calls.                                       *)
(***************************************************************************)
\* set_image_transfer_callback (image_service.h:166), before the server starts
SetImageTransferCallback ==
  /\ Running /\ ~image_callback_ /\ pending = <<"register">>
  /\ Commit([Begin(World, Ev("set_callback")) EXCEPT !.image_callback_ = TRUE])
  /\ UNCHANGED <<alive, connected>>

\* the consumer calls release_image_buffer() for the buffer it was handed
ReleaseImageBuffer ==
  /\ Running /\ consumer_buf # 0
  /\ Commit([release_image_buffer(
               [Begin(World, Ev("release")) EXCEPT !.ctx = "consumer"])
               EXCEPT !.consumer_buf = 0])
  /\ UNCHANGED <<alive, connected>>

\* ImageService::~ImageService (image_service.cpp:45-47)
Destroy ==
  /\ Running
  /\ Commit(reset_transfer(Begin(World, Ev("destroy"))))
  /\ alive' = FALSE
  /\ UNCHANGED connected

(***************************************************************************)
(* Actions: the stack's events, dispatched by ImageService::handle_event   *)
(* (image_service.cpp:53-82).                                              *)
(***************************************************************************)
RegEvent ==
  /\ Running /\ pending # <<>> /\ Head(pending) = "register"
  /\ \E accepted \in BOOLEAN :
       Commit(handle_reg_event(
                [Begin(World, Ev("reg")) EXCEPT !.pending = Tail(@)], accepted))
  /\ UNCHANGED <<alive, connected>>

CreateEvent ==
  /\ Running /\ pending # <<>> /\ Head(pending) = "create_service"
  /\ \E status_ok, start_ok, accepted \in BOOLEAN :
       Commit(handle_create_event(
                [Begin(World, Ev("create")) EXCEPT !.pending = Tail(@)],
                status_ok, start_ok, accepted))
  /\ UNCHANGED <<alive, connected>>

\* the event that answers a creation request: a tells whether the stack
\* reports success, b is the attribute handle it reports
CreationEv(kind, status_ok, h) ==
  [Ev(kind) EXCEPT !.a = IF status_ok THEN 1 ELSE 0, !.b = h]

AddCharEvent ==
  /\ Running /\ pending # <<>>
  /\ Head(pending) \in {"add_control_char", "add_data_char"}
  /\ \E status_ok, accepted \in BOOLEAN :
     \E which \in {IF Head(pending) = "add_control_char" THEN "control" ELSE "data"},
        h \in {IF status_ok THEN NextHandle(attrs) ELSE 0} :
       Commit(handle_add_char_event(
                [Begin(World, CreationEv("add_char", status_ok, h)) EXCEPT
                   !.pending = Tail(@),
                   !.attrs = IF status_ok THEN [@ EXCEPT ![which] = h] ELSE @],
                status_ok, h, accepted))
  /\ UNCHANGED <<alive, connected>>

AddCharDescrEvent ==
  /\ Running /\ pending # <<>> /\ Head(pending) = "add_char_descr"
  /\ \E status_ok, accepted \in BOOLEAN :
     \E h \in {IF status_ok THEN NextHandle(attrs) ELSE 0} :
       Commit(handle_add_char_descr_event(
                [Begin(World, CreationEv("add_char_descr", status_ok, h)) EXCEPT
                   !.pending = Tail(@),
                   !.attrs = IF status_ok THEN [@ EXCEPT !.cccd = h] ELSE @],
                status_ok, h, accepted))
  /\ UNCHANGED <<alive, connected>>

\* connection ids the stack assigns
ConnIds == {1}

ConnectEvent ==
  /\ Running /\ ~connected
  /\ \E conn_id \in ConnIds :
       Commit(handle_connect_event(Begin(World, Ev("connect")), conn_id))
  /\ connected' = TRUE
  /\ UNCHANGED alive

DisconnectEvent ==
  /\ Running /\ connected
  /\ Commit(handle_disconnect_event(Begin(World, Ev("disconnect")), TRUE))
  /\ connected' = FALSE
  /\ UNCHANGED alive

\* the MTU a client negotiates: one exchange per connection, before it
\* starts a transfer
MtuValues == {MAX_MTU_SIZE}

MtuEvent ==
  /\ Running /\ connected /\ mtu_ = DEFAULT_MTU /\ status_ = "IDLE"
  /\ \E mtu \in MtuValues :
       Commit(handle_mtu_event(Begin(World, Ev("mtu")), mtu))
  /\ UNCHANGED <<alive, connected>>

\* The model explores the whole range of TRANSFER_INIT parameters for the
\* first transfer of an application that has registered its callback and set
\* up both characteristics, on a connection with the default MTU.
FirstTransfer ==
  /\ FreshBuf(heap) = 1
  /\ image_callback_
  /\ mtu_ = DEFAULT_MTU
  /\ char_creation_state_ = "BOTH_CREATED"

\* what malloc may return for a TRANSFER_INIT; it is not called for
\* parameters past a limit
AllocResults(t) ==
  IF t[1] <= MAX_TRANSFER_SIZE /\ t[2] <= MAX_CHUNK_SIZE /\ FreshBuf(heap) # 0
  THEN BOOLEAN ELSE {FALSE}

\* the write event of a control message
ControlWrite(len, command, t) ==
  [Write(attrs.control, len) EXCEPT
     !.need_rsp = TRUE, !.command = command,
     !.param1 = t[1], !.param2 = t[2], !.param3 = t[3]]

\* the client writes a TRANSFER_INIT to the control characteristic
WriteTransferInit ==
  /\ Running /\ connected /\ attrs.control # 0 /\ CanSend(2)
  /\ \E t \in (IF FirstTransfer THEN InitTriples ELSE LaterTriples) :
     \E bufok \in AllocResults(t) :
     \E mapok \in (IF bufok THEN BOOLEAN ELSE {FALSE}),
        tx1 \in TxResults :
     \E tx2 \in Tx2Results(tx1) :
     \E wr \in {ControlWrite(CONTROL_MSG_SIZE, TRANSFER_INIT, t)} :
       Commit(handle_write_event(
                Begin(World, [Ev("init") EXCEPT !.a = t[1], !.b = t[2], !.c = t[3]]),
                wr, bufok, mapok, JPEG_SOI_0, JPEG_SOI_0, FALSE, tx1, tx2))
  /\ UNCHANGED <<alive, connected>>

\* the client writes something else to the control characteristic: a message
\* cut short (whatever its first byte), or a command the server does not take
WriteOtherControl ==
  /\ Running /\ connected /\ attrs.control # 0 /\ CanSend(2)
  /\ \E len \in {CONTROL_MSG_SIZE - 1, CONTROL_MSG_SIZE},
        command \in {TRANSFER_INIT, CHUNK_REQUEST}, tx1 \in TxResults :
       /\ len = CONTROL_MSG_SIZE => command # TRANSFER_INIT
       /\ \E wr \in {ControlWrite(len, command, <<1, 1, 1>>)} :
            Commit(handle_write_event(
                     Begin(World, [Ev("control") EXCEPT !.a = command, !.b = len]),
                     wr, TRUE, TRUE, JPEG_SOI_0, JPEG_SOI_0, FALSE, tx1, FALSE))
  /\ UNCHANGED <<alive, connected>>

\* the write event of a data chunk; claimed is the header's data_length
DataWrite(chunk_id, payload, claimed) ==
  [Write(attrs.data, DATA_HEADER_SIZE + Len(payload)) EXCEPT
     !.chunk_id = chunk_id, !.data_length = claimed, !.payload = payload]

\* the session takes data chunks
Active == status_ \in {"REQUESTING_CHUNKS", "RECEIVING"}

\* chunk ids a data write carries: every id of the session and the first id
\* past it
ChunkIds == 0..expected_chunks_

Received(id) ==
  chunk_received_map_ # 0 /\ id \in maps[chunk_received_map_].got

\* the payloads a data write carries under chunk id: any payload for a chunk
\* that the transfer into the first buffer still misses, one byte otherwise
PayloadsOf(id) ==
  IF Active /\ image_buffer_ = 1 /\ id < expected_chunks_ /\ ~Received(id)
  THEN Payloads
  ELSE {<<JPEG_SOI_1>>}

\* the data_length a chunk header states for its payload: its length, or one
\* byte less in a chunk for a session that takes chunks
Claims(payload) ==
  {Len(payload)} \cup
  (IF Active /\ image_buffer_ = 1 /\ payload = <<JPEG_SOI_1>> THEN {0} ELSE {})

\* the next accepted chunk is the last one
Completing == Active /\ total_chunks_received_ + 1 >= expected_chunks_

\* what validate_jpeg_header may read from cell i of the image buffer if no
\* chunk has written it, or if the block ends before it
Unwritten(i) ==
  IF ~(Completing /\ image_buffer_ # 0) THEN {JPEG_SOI_0}
  ELSE IF i > Len(heap[image_buffer_].data) THEN Bytes
  ELSE IF heap[image_buffer_].data[i] = UNINIT THEN Bytes
  ELSE {JPEG_SOI_0}

\* the client writes a data chunk to the data characteristic
WriteData ==
  /\ Running /\ connected /\ attrs.data # 0 /\ CanSend(1)
  /\ \E chunk_id \in ChunkIds :
     \E payload \in PayloadsOf(chunk_id) :
     \E claimed \in Claims(payload),
        u0 \in Unwritten(1), u1 \in Unwritten(2),
        release_now \in (IF Completing /\ image_callback_ THEN BOOLEAN ELSE {FALSE}),
        tx1 \in TxResults :
     \E tx2 \in Tx2Results(tx1) :
     \E wr \in {DataWrite(chunk_id, payload, claimed)} :
       Commit(handle_write_event(
                Begin(World, [Ev("data") EXCEPT !.a = chunk_id, !.b = claimed,
                                                !.payload = payload]),
                wr, FALSE, FALSE, u0, u1, release_now, tx1, tx2))
  /\ UNCHANGED <<alive, connected>>

\* the client writes fewer bytes than a chunk header to the data characteristic
WriteShortData ==
  /\ Running /\ connected /\ attrs.data # 0 /\ CanSend(2)
  /\ \E tx1 \in TxResults :
     \E wr \in {Write(attrs.data, DATA_HEADER_SIZE - 1)} :
       Commit(handle_write_event(
                Begin(World, Ev("short_data")), wr, FALSE, FALSE,
                JPEG_SOI_0, JPEG_SOI_0, FALSE, tx1, FALSE))
  /\ UNCHANGED <<alive, connected>>

\* the client writes the control characteristic's configuration descriptor,
\* before it starts a transfer
WriteCccd ==
  /\ Running /\ connected /\ attrs.cccd # 0 /\ status_ = "IDLE"
  /\ \E len \in 1..2, bit0 \in BOOLEAN :
     \E wr \in {[Write(attrs.cccd, len) EXCEPT !.need_rsp = TRUE, !.bit0 = bit0]} :
       Commit(handle_write_event(
                Begin(World, [Ev("cccd") EXCEPT !.a = len,
                                                !.b = IF bit0 THEN 1 ELSE 0]),
                wr, FALSE, FALSE, JPEG_SOI_0, JPEG_SOI_0, FALSE, FALSE, FALSE))
  /\ UNCHANGED <<alive, connected>>

Next ==
  \/ SetImageTransferCallback
  \/ ReleaseImageBuffer
  \/ Destroy
  \/ RegEvent
  \/ CreateEvent
  \/ AddCharEvent
  \/ AddCharDescrEvent
  \/ ConnectEvent
  \/ DisconnectEvent
  \/ MtuEvent
  \/ WriteTransferInit
  \/ WriteOtherControl
  \/ WriteData
  \/ WriteShortData
  \/ WriteCccd

Spec == Init /\ [][Next]_vars

(***************************************************************************)
(* The setup on its own, with creation events the service did not ask for. *)
(* BLEServer::handle_gatts_event (ble_server.cpp:180-184) hands an event   *)
(* to every service whose interface it names and, when it names none       *)
(* (ESP_GATT_IF_NONE), to every service; the handlers take the event       *)
(* whatever request is outstanding.                                        *)
(***************************************************************************)
\* the handle such an event reports: an attribute that is none of the
\* service's own
StrayHandles == {FirstHandle - 1}

\* the application has been registered: the stack has events for it
Registered == IF pending = <<>> THEN TRUE ELSE Head(pending) # "register"

\* an endpoint-created event nobody is waiting for
StrayAddCharEvent ==
  /\ Running /\ Registered /\ char_count_ < MaxCount
  /\ \E status_ok, accepted \in BOOLEAN :
     \E h \in (IF status_ok THEN StrayHandles ELSE {0}) :
       Commit(handle_add_char_event(
                Begin(World, [CreationEv("add_char", status_ok, h) EXCEPT !.c = 1]),
                status_ok, h, accepted))
  /\ UNCHANGED <<alive, connected>>

\* a descriptor-created event nobody is waiting for
StrayAddCharDescrEvent ==
  /\ Running /\ Registered /\ descr_count_ < MaxCount
  /\ \E status_ok, accepted \in BOOLEAN :
     \E h \in (IF status_ok THEN StrayHandles ELSE {0}) :
       Commit(handle_add_char_descr_event(
                Begin(World, [CreationEv("add_char_descr", status_ok, h) EXCEPT !.c = 1]),
                status_ok, h, accepted))
  /\ UNCHANGED <<alive, connected>>

SetupNext ==
  \/ RegEvent
  \/ CreateEvent
  \/ AddCharEvent
  \/ AddCharDescrEvent
  \/ StrayAddCharEvent
  \/ StrayAddCharDescrEvent

SetupSpec == Init /\ [][SetupNext]_vars

(***************************************************************************)
(* The application is registered again (esp_ble_gatts_app_register,        *)
(* ble_server.cpp:247-259) while the service is in use: the stack answers  *)
(* with another ESP_GATTS_REG_EVT, gives the attributes of the new service *)
(* handles of their own and answers the requests of the new registration.  *)
(***************************************************************************)
ReRegEvent ==
  /\ Running /\ Registered /\ attrs.base < 3 * MaxReRegs
  /\ \E accepted \in BOOLEAN :
       Commit(handle_reg_event(
                [Begin(World, [Ev("reg") EXCEPT !.c = 1]) EXCEPT
                   !.pending = <<>>,
                   !.attrs = NoAttrs(@.base + 3)],
                accepted))
  /\ UNCHANGED <<alive, connected>>

ReRegNext ==
  \/ RegEvent
  \/ CreateEvent
  \/ AddCharEvent
  \/ AddCharDescrEvent
  \/ ReRegEvent
  \/ ConnectEvent
  \/ WriteCccd
  \/ WriteTransferInit
  \/ WriteData

ReRegSpec == Init /\ [][ReRegNext]_vars

(***************************************************************************)
(* A session left waiting: the events handle_event dispatches              *)
(* (image_service.cpp:53-82), without the application's own calls, and     *)
(* with two events the client can cause in the middle of a session: it     *)
(* rewrites the configuration descriptor, or negotiates the MTU.           *)
(***************************************************************************)
WriteCccdLate ==
  /\ Running /\ connected /\ attrs.cccd # 0 /\ status_ # "IDLE"
  /\ \E bit0 \in BOOLEAN :
     \E wr \in {[Write(attrs.cccd, 2) EXCEPT !.need_rsp = TRUE, !.bit0 = bit0]} :
       Commit(handle_write_event(
                Begin(World, [Ev("cccd") EXCEPT !.a = 2,
                                                !.b = IF bit0 THEN 1 ELSE 0]),
                wr, FALSE, FALSE, JPEG_SOI_0, JPEG_SOI_0, FALSE, FALSE, FALSE))
  /\ UNCHANGED <<alive, connected>>

MtuEventLate ==
  /\ Running /\ connected /\ mtu_ = DEFAULT_MTU /\ status_ # "IDLE"
  /\ \E mtu \in MtuValues :
       Commit(handle_mtu_event(Begin(World, Ev("mtu")), mtu))
  /\ UNCHANGED <<alive, connected>>

ParkedNext ==
  \/ RegEvent
  \/ CreateEvent
  \/ AddCharEvent
  \/ AddCharDescrEvent
  \/ ConnectEvent
  \/ DisconnectEvent
  \/ MtuEvent
  \/ MtuEventLate
  \/ WriteCccd
  \/ WriteCccdLate
  \/ WriteTransferInit
  \/ WriteOtherControl
  \/ WriteData
  \/ WriteShortData

ParkedSpec == Init /\ [][ParkedNext]_vars

(***************************************************************************)
(* A transfer of more chunks than two windows hold.  The window logic of   *)
(* handle_data_chunk (image_service.cpp:596-600, 647-690) does not look at *)
(* the payloads, so the chunks of this transfer are empty: the parameters  *)
(* (0, 0, n) pass both limit checks of handle_transfer_init (437-449).     *)
(***************************************************************************)
LongTriples == {<<0, 0, 2 * DEFAULT_CHUNKS_PER_REQUEST + 1>>}

WriteLongTransferInit ==
  /\ Running /\ connected /\ attrs.control # 0 /\ CanSend(2)
  /\ \E t \in LongTriples :
     \E bufok \in AllocResults(t) :
     \E mapok \in (IF bufok THEN BOOLEAN ELSE {FALSE}),
        tx1 \in TxResults :
     \E tx2 \in Tx2Results(tx1) :
     \E wr \in {ControlWrite(CONTROL_MSG_SIZE, TRANSFER_INIT, t)} :
       Commit(handle_write_event(
                Begin(World, [Ev("init") EXCEPT !.a = t[1], !.b = t[2], !.c = t[3]]),
                wr, bufok, mapok, JPEG_SOI_0, JPEG_SOI_0, FALSE, tx1, tx2))
  /\ UNCHANGED <<alive, connected>>

LongNext ==
  \/ RegEvent
  \/ CreateEvent
  \/ AddCharEvent
  \/ AddCharDescrEvent
  \/ ConnectEvent
  \/ DisconnectEvent
  \/ WriteCccd
  \/ WriteLongTransferInit
  \/ WriteData

LongSpec == Init /\ [][LongNext]_vars

(***************************************************************************)
(* A compliant peer on a reliable channel: control notifications are       *)
(* enabled before a TRANSFER_INIT, esp_ble_gatts_send_indicate and the     *)
(* allocations succeed, there is no disconnect.  The peer announces        *)
(* images cut into full chunks, and for the window requested it delivers   *)
(* each chunk with its full payload, in any order, and may repeat chunks   *)
(* of that window; it sends nothing outside the window.  The consumer      *)
(* releases the buffer inside the callback or leaves it to the service.    *)
(***************************************************************************)
ConsistentTriples ==
  {t \in (1..MAX_TRANSFER_SIZE) \X (1..MaxPayload) \X (1..MAX_TRANSFER_SIZE) :
     ValidTriple(t[1], t[2], t[3])}

WriteConsistentInit ==
  /\ Running /\ connected /\ attrs.control # 0
  /\ char_creation_state_ = "BOTH_CREATED"
  /\ control_notifications_enabled_
  /\ FreshBuf(heap) # 0
  /\ \E t \in ConsistentTriples :
     \E wr \in {ControlWrite(CONTROL_MSG_SIZE, TRANSFER_INIT, t)} :
       Commit(handle_write_event(
                Begin(World, [Ev("init") EXCEPT !.a = t[1], !.b = t[2], !.c = t[3]]),
                wr, TRUE, TRUE, JPEG_SOI_0, JPEG_SOI_0, FALSE, TRUE, FALSE))
  /\ UNCHANGED <<alive, connected>>

\* the full payloads of chunk id: chunk_size bytes, the last chunk the rest
FullPayloads(id) ==
  {Alternating(b, Min(chunk_size_, total_size_ - id * chunk_size_)) : b \in Bytes}

\* the write of chunk id of the window requested, with a full payload
Deliver(id) ==
  \E payload \in FullPayloads(id), release_now \in BOOLEAN :
  \E wr \in {DataWrite(id, payload, Len(payload))} :
    Commit(handle_write_event(
             Begin(World, [Ev("data") EXCEPT !.a = id, !.b = Len(payload),
                                             !.payload = payload]),
             wr, FALSE, FALSE, JPEG_SOI_0, JPEG_SOI_0, release_now, TRUE, FALSE))

\* the peer delivers a chunk of the window that it has not delivered yet
DeliverFresh(id) ==
  /\ Running /\ connected /\ attrs.data # 0 /\ Active
  /\ id >= current_request_start_ /\ id <= current_request_end_
  /\ id < expected_chunks_ /\ ~Received(id)
  /\ Deliver(id)
  /\ UNCHANGED <<alive, connected>>

\* the peer repeats a chunk of the window
DeliverDuplicate ==
  /\ Running /\ connected /\ attrs.data # 0 /\ Active /\ CanSend(1)
  /\ \E id \in current_request_start_..current_request_end_ :
       /\ Received(id)
       /\ Deliver(id)
  /\ UNCHANGED <<alive, connected>>

\* the chunk ids of the images the peer announces
PeerChunkIds == 0..(MAX_TRANSFER_SIZE - 1)

CompliantNext ==
  \/ SetImageTransferCallback
  \/ RegEvent
  \/ CreateEvent
  \/ AddCharEvent
  \/ AddCharDescrEvent
  \/ ConnectEvent
  \/ WriteCccd
  \/ WriteConsistentInit
  \/ DeliverDuplicate
  \/ \E id \in PeerChunkIds : DeliverFresh(id)

\* the peer's obligation: every chunk of the window requested is delivered
\* eventually
CompliantSpec ==
  /\ Init /\ [][CompliantNext]_vars
  /\ \A id \in PeerChunkIds : WF_vars(DeliverFresh(id))

(***************************************************************************)
(* A long-lived server: the sequence counter near the end of its 16 bits.  *)
(* sequence_number_ is a uint16_t (image_service.h:205) that only the      *)
(* three senders write; a client brings it near 65535 with a run of        *)
(* control writes the server answers with TRANSFER_ERROR.                  *)
(***************************************************************************)
\* the writes of the run: two less than the counter takes to come back to 0
RunLength == 65536 - 2

\* the event of one write of the run
RunEv == [Ev("control") EXCEPT !.a = CHUNK_REQUEST, !.b = CONTROL_MSG_SIZE,
                               !.c = RunLength]

\* handle_write_event applied to n such writes in a row, each sent with
\* result tx; out keeps the effects of the last one
RECURSIVE WriteRun(_, _, _, _)
WriteRun(world, wr, tx, n) ==
  Then(world, LAMBDA w :
    IF n = 0 THEN w
    ELSE IF n = 1
    THEN handle_write_event(Begin(w, RunEv), wr, TRUE, TRUE,
                            JPEG_SOI_0, JPEG_SOI_0, FALSE, tx, FALSE)
    ELSE WriteRun(WriteRun(w, wr, tx, n \div 2), wr, tx, n - (n \div 2)))

\* the client writes RunLength control messages with a command the server
\* does not take, right after it has connected to the service set up
WriteControlRun ==
  /\ Running /\ connected /\ attrs.control # 0
  /\ sequence_number_ = 0 /\ ev.kind = "connect"
  /\ char_creation_state_ = "BOTH_CREATED"
  /\ \E tx \in TxResults :
     \E wr \in {ControlWrite(CONTROL_MSG_SIZE, CHUNK_REQUEST, <<1, 1, 1>>)} :
       Commit(WriteRun(World, wr, tx, RunLength))
  /\ UNCHANGED <<alive, connected>>

WrapNext ==
  \/ RegEvent
  \/ CreateEvent
  \/ AddCharEvent
  \/ AddCharDescrEvent
  \/ ConnectEvent
  \/ DisconnectEvent
  \/ WriteCccd
  \/ WriteControlRun
  \/ WriteTransferInit
  \/ WriteOtherControl
  \/ WriteData

WrapSpec == Init /\ [][WrapNext]_vars

(***************************************************************************)
(* Advertising: AdvertisingManager::init in the application's task, after  *)
(* BLEServer::init (ble_server.h:32-40), while the stack's task delivers   *)
(* GAP events (BLEServer::handle_gap_event, ble_server.cpp:187-190) and    *)
(* the events of the service's setup.  The two tasks read and write        *)
(* adv_config_done_ without synchronisation; each of init's statements on  *)
(* it is a step of its own, and every order of the steps and the events    *)
(* is taken.                                                               *)
(***************************************************************************)
AdvInitConfigAdvData ==
  /\ Running /\ gap.pc = "start"
  /\ \E name_ok \in BOOLEAN, ok \in BOOLEAN :
       Commit(init_config_adv_data(Begin(World, Ev("adv_init")), name_ok, ok))
  /\ UNCHANGED <<alive, connected>>

AdvInitClearAdvFlag ==
  /\ Running /\ gap.pc = "adv_data_configured"
  /\ Commit(init_clear_adv_flag(Begin(World, Ev("adv_init"))))
  /\ UNCHANGED <<alive, connected>>

AdvInitConfigScanRsp ==
  /\ Running /\ gap.pc = "adv_flag_cleared"
  /\ \E ok \in BOOLEAN :
       Commit(init_config_scan_rsp(Begin(World, Ev("adv_init")), ok))
  /\ UNCHANGED <<alive, connected>>

AdvInitClearScanRspFlag ==
  /\ Running /\ gap.pc = "scan_rsp_configured"
  /\ Commit(init_clear_scan_rsp_flag(Begin(World, Ev("adv_init"))))
  /\ UNCHANGED <<alive, connected>>

\* the stack delivers its next GAP event
GapEvent ==
  /\ Running /\ gap.pending # <<>>
  /\ \E event \in {Head(gap.pending)} :
       Commit(handle_gap_event(
                [Begin(World, [Ev("gap") EXCEPT !.payload = <<event>>])
                   EXCEPT !.gap.pending = Tail(@)],
                event))
  /\ UNCHANGED <<alive, connected>>

AdvNext ==
  \/ AdvInitConfigAdvData
  \/ AdvInitClearAdvFlag
  \/ AdvInitConfigScanRsp
  \/ AdvInitClearScanRspFlag
  \/ GapEvent
  \/ RegEvent
  \/ CreateEvent
  \/ AddCharEvent
  \/ AddCharDescrEvent
  \/ ConnectEvent
  \/ DisconnectEvent

AdvSpec == Init /\ [][AdvNext]_vars

(***************************************************************************)
(* Properties.                                                             *)
(***************************************************************************)
\* the effects of kind t among the effects o
Effects(o, t) == SelectSeq(o, LAMBDA e : e.t = t)

\* the TRANSFER_ERRORs among the effects o
ErrorsSent(o) ==
  SelectSeq(o, LAMBDA e : e.t = "tx" /\ e.cmd = TRANSFER_ERROR)

\* the effects o are one TRANSFER_ERROR with code, and nothing else
RejectedWith(o, code) ==
  /\ Len(o) = 1
  /\ Len(ErrorsSent(o)) = 1
  /\ ErrorsSent(o)[1].p1 = code

\* the payloads got[1], ..., got[n] one after the other
RECURSIVE Concat(_, _)
Concat(got, n) == IF n = 0 THEN <<>> ELSE Concat(got, n - 1) \o got[n]

\* every chunk of a transfer with valid parameters has been delivered, each
\* once and whole, and nothing else has happened since the TRANSFER_INIT
AllDelivered ==
  /\ sess.proper
  /\ ValidTriple(total_size_, chunk_size_, expected_chunks_)
  /\ DOMAIN sess.got = 1..expected_chunks_

\* the image as the last event left it: what the callback was given, or
\* what the session's buffer holds if no callback is registered
Image ==
  IF Len(Effects(out, "callback")) > 0
  THEN Effects(out, "callback")[1].data
  ELSE IF image_buffer_ # 0 THEN heap[image_buffer_].data ELSE <<>>

\* the transfer is complete, with the image the peer sent
CompleteImage ==
  /\ status_ = "COMPLETE"
  /\ received_size_ = total_size_
  /\ Image = Concat(sess.got, expected_chunks_)

DataStep == ev'.kind = "data"

\* what a rejected chunk must leave alone
ReassemblyKept ==
  UNCHANGED <<heap, maps, received_size_, total_chunks_received_,
              current_batch_received_>>

\* ... and the rest of the session
SessionKept ==
  /\ ReassemblyKept
  /\ UNCHANGED <<status_, image_buffer_, chunk_received_map_,
                 total_size_, chunk_size_, expected_chunks_,
                 current_request_start_, current_request_end_>>

\* the step re-sends a chunk id the session has accepted
Resend == DataStep /\ Received(ev'.a)

\* C2 (as amended): re-sending a chunk id accepted in the current session
\* never changes the buffer, the receipt map, received_size,
\* total_chunks_received or the window counter; while the session is in
\* RequestingChunks or Receiving it yields a TRANSFER_ERROR with code
\* DuplicateChunk, and in every other status (Complete, Error) the chunk is
\* dropped without any message.
C2_Resend ==
  [][Resend =>
       /\ ReassemblyKept
       /\ IF Active THEN RejectedWith(out', DUPLICATE_CHUNK) ELSE out' = <<>>]_vars

\* C2 as stated: the resend yields DuplicateChunk in every session state,
\* Complete included.
C2_AsStated ==
  [][Resend => ReassemblyKept /\ RejectedWith(out', DUPLICATE_CHUNK)]_vars

\* C2 witness: a chunk the session holds was sent again and was rejected as
\* a duplicate.
C2_Witness ==
  /\ ev.kind = "data" /\ Active /\ Received(ev.a)
  /\ RejectedWith(out, DUPLICATE_CHUNK)

PastTheEnd ==
  /\ ev'.b = Len(ev'.payload)
  /\ ev'.a * chunk_size_ + Len(ev'.payload) > total_size_

Tiles(windows, n, w) ==
  /\ Len(windows) * w >= n
  /\ (Len(windows) - 1) * w < n
  /\ \A i \in 1..Len(windows) :
       /\ windows[i][1] = (i - 1) * w
       /\ windows[i][2] = Min(w, n - (i - 1) * w)

\* C5 (as amended): when a transfer has run from TRANSFER_INIT to Complete
\* and every chunk was accepted inside the window requested at the time, the
\* windows its CHUNK_REQUESTs announced tile [0, expected_chunks - 1]:
\* consecutive ranges of chunks_per_request chunks, the last one holding
\* what is left.
C5_WindowsTile ==
  status_ = "COMPLETE" /\ sess.inwin =>
    Tiles(sess.windows, expected_chunks_, chunks_per_request_)

\* C5 as stated: the windows tile in any transfer that reaches Complete.
C5_AsStated ==
  status_ = "COMPLETE" =>
    Tiles(sess.windows, expected_chunks_, chunks_per_request_)

\* C5 witness: a transfer of more chunks than one window completed, window
\* by window.
C5_Witness ==
  /\ status_ = "COMPLETE" /\ sess.inwin
  /\ expected_chunks_ > chunks_per_request_
  /\ Len(sess.windows) > 1

\* C6 as stated: once the completion callback has been given a buffer, the
\* session holds no reference to it, and if it has been freed it was the
\* consumer's release that freed it, not an event of the engine (data chunk,
\* disconnect, superseding TRANSFER_INIT, destructor).
C6_AsStated ==
  \A b \in BufIds :
    heap[b].handed =>
      /\ image_buffer_ # b
      /\ heap[b].st = "freed" => heap[b].freed_in = "consumer"

\* the number of times the last event invoked the completion callback
Callbacks(o) == Len(Effects(o, "callback"))

\* C7: the completion callback is invoked only by the data chunk that
\* completes a transfer, i.e. in a session that took chunks and now holds
\* every chunk 0..expected_chunks-1, and then exactly once; a data chunk that
\* arrives after Complete does not invoke it again.
C7_CallbackOnce ==
  [][/\ Callbacks(out') > 0 =>
          /\ DataStep /\ Active /\ status_' = "COMPLETE"
          /\ total_chunks_received_' = expected_chunks_
          /\ maps'[chunk_received_map_].got = 0..(expected_chunks_ - 1)
          /\ Callbacks(out') = 1
     /\ Active /\ status_' = "COMPLETE" /\ image_callback_ =>
          Callbacks(out') = 1
     /\ DataStep /\ status_ = "COMPLETE" => Callbacks(out') = 0]_vars

\* C7 witness: the last of several chunks invoked the callback.
C7_Witness ==
  /\ ev.kind = "data" /\ status_ = "COMPLETE"
  /\ expected_chunks_ > 1
  /\ Callbacks(out) = 1

\* the transfer parameters and counters are zero
Zeroed ==
  /\ total_size_ = 0 /\ chunk_size_ = 0 /\ expected_chunks_ = 0
  /\ received_size_ = 0 /\ next_expected_chunk_ = 0
  /\ current_request_start_ = 0 /\ current_request_end_ = 0
  /\ total_chunks_received_ = 0 /\ current_batch_received_ = 0

\* C8: a disconnect leaves the session Idle, the buffer and the receipt map
\* it held freed and no longer referenced, and every transfer parameter and
\* counter zero; release_image_buffer with no buffer held does nothing; and
\* no event ever frees a block that is already free.
C8_Disconnect ==
  [][/\ ev'.kind = "disconnect" =>
          /\ status_' = "IDLE" /\ Zeroed'
          /\ image_buffer_' = 0 /\ chunk_received_map_' = 0
          /\ image_buffer_ # 0 => heap'[image_buffer_].st = "freed"
          /\ chunk_received_map_ # 0 => maps'[chunk_received_map_].st = "freed"
     /\ ev'.kind = "release" /\ image_buffer_ = 0 =>
          /\ out' = <<>>
          /\ UNCHANGED <<fields, heap, maps>>
     /\ fault' # "double_free"]_vars

\* C8 witness: a disconnect in the middle of a transfer freed its buffer.
C8_Witness ==
  /\ ev.kind = "disconnect" /\ status_ = "IDLE"
  /\ Len(Effects(out, "free")) = 1
  /\ Len(Effects(out, "free_map")) = 1
  /\ Effects(out, "free_map")[1].p2 > 0

\* the step handles a TRANSFER_INIT whose parameters are within the limits
ValidInitStep ==
  /\ ev'.kind = "init"
  /\ ev'.a <= MAX_TRANSFER_SIZE
  /\ ev'.b <= MAX_CHUNK_SIZE

\* the place of the first effect of kind t among the effects o (0: none)
Place(o, t) ==
  IF \E i \in 1..Len(o) : o[i].t = t
  THEN CHOOSE i \in 1..Len(o) : o[i].t = t /\ \A j \in 1..(i - 1) : o[j].t # t
  ELSE 0

\* the effects o free the buffer b and the map m once, ahead of any malloc
ReleasedFirst(o, b, m) ==
  /\ Len(SelectSeq(o, LAMBDA e : e.t = "free" /\ e.p1 = b)) =
       IF b = 0 THEN 0 ELSE 1
  /\ Len(SelectSeq(o, LAMBDA e : e.t = "free_map" /\ e.p1 = m)) = 1
  /\ \A i, j \in 1..Len(o) :
       /\ o[j].t = "malloc"
       /\ \/ o[i].t = "free" /\ o[i].p1 = b
          \/ o[i].t = "free_map" /\ o[i].p1 = m
       => i < j

\* C9: a TRANSFER_INIT with valid parameters that arrives while a transfer
\* is in progress frees the old buffer and the old receipt map exactly once,
\* before the new buffer is allocated (a buffer that release_image_buffer
\* has freed already is not freed again); the counters restart from zero, the
\* parameters are those of the new message, and the new session's receipt
\* map is empty.
C9_Supersede ==
  [][ValidInitStep /\ Active =>
       /\ ReleasedFirst(out', image_buffer_, chunk_received_map_)
       /\ image_buffer_ # 0 => heap'[image_buffer_].st = "freed"
       /\ maps'[chunk_received_map_].st = "freed"
       /\ fault' = "none"
       /\ received_size_' = 0
       /\ total_chunks_received_' = 0 /\ current_batch_received_' = 0
       /\ total_size_' = ev'.a /\ chunk_size_' = ev'.b
       /\ expected_chunks_' = ev'.c
       /\ Active' =>
            /\ image_buffer_' # image_buffer_
            /\ heap'[image_buffer_'].st = "live"
            /\ maps'[chunk_received_map_'].got = {}]_vars

\* C9 witness: a TRANSFER_INIT superseded a transfer that had accepted
\* chunks, and the new session takes chunks.
C9_Witness ==
  /\ ev.kind = "init" /\ Active
  /\ Len(Effects(out, "free")) = 1
  /\ Len(Effects(out, "malloc")) = 1
  /\ Len(Effects(out, "free_map")) = 1
  /\ Effects(out, "free_map")[1].p2 > 0
  /\ total_chunks_received_ = 0

\* C10 as stated: a TRANSFER_INIT with total_size > MAX_TRANSFER_SIZE is
\* answered with a TRANSFER_ERROR with code TransferTooLarge, and afterwards
\* the session holds no buffer and no receipt map, whatever its state was.
C10_AsStated ==
  [][ev'.kind = "init" /\ ev'.a > MAX_TRANSFER_SIZE =>
       /\ Len(ErrorsSent(out')) = 1
       /\ ErrorsSent(out')[1].p1 = TRANSFER_TOO_LARGE
       /\ image_buffer_' = 0
       /\ chunk_received_map_' = 0]_vars

\* the errors that end a session, and those that do not
FatalErrors ==
  {TRANSFER_TOO_LARGE, CHUNK_SIZE_TOO_LARGE, MEMORY_ALLOCATION_FAILED,
   NOTIFICATION_SEND_FAILED}

ChunkErrors ==
  {BUFFER_OVERFLOW, INVALID_CHUNK_ID, DUPLICATE_CHUNK,
   CONTROL_MESSAGE_TOO_SHORT, DATA_CHUNK_TOO_SHORT}

\* the errors, InvalidCommand aside, that the event of the step runs into,
\* told from the event and from the results of malloc, calloc and the send
\* of the CHUNK_REQUEST
Raised ==
  IF ev'.kind = "init"
  THEN IF ev'.a > MAX_TRANSFER_SIZE THEN {TRANSFER_TOO_LARGE}
       ELSE IF ev'.b > MAX_CHUNK_SIZE THEN {CHUNK_SIZE_TOO_LARGE}
       ELSE IF Len(Effects(out', "malloc")) = 0 \/ Len(Effects(out', "calloc")) = 0
       THEN {MEMORY_ALLOCATION_FAILED}
       ELSE IF RequestFailed(out') THEN {NOTIFICATION_SEND_FAILED}
       ELSE {}
  ELSE IF ev'.kind = "control"
  THEN IF ev'.b < CONTROL_MSG_SIZE THEN {CONTROL_MESSAGE_TOO_SHORT} ELSE {}
  ELSE IF ev'.kind = "short_data"
  THEN IF Active THEN {DATA_CHUNK_TOO_SHORT} ELSE {}
  ELSE IF ev'.kind = "data" /\ Active /\ fault' = "none"
  THEN IF ev'.a >= expected_chunks_ THEN {INVALID_CHUNK_ID}
       ELSE IF Received(ev'.a) THEN {DUPLICATE_CHUNK}
       ELSE IF ev'.a * chunk_size_ + Len(ev'.payload) > total_size_
       THEN {BUFFER_OVERFLOW}
       ELSE IF RequestFailed(out') THEN {NOTIFICATION_SEND_FAILED}
       ELSE {}
  ELSE {}

\* the codes of the TRANSFER_ERRORs the effects o try to send
Reported(o) == {ErrorsSent(o)[i].p1 : i \in 1..Len(ErrorsSent(o))}

ControlStep == ev'.kind = "control"

\* the step leaves everything of the session as it was
SessionUntouched ==
  /\ SessionKept
  /\ UNCHANGED <<next_expected_chunk_, chunks_per_request_, consumer_buf>>

\* the step allocates nothing, frees nothing, requests no chunk, completes
\* nothing
NoSessionEffect(o) ==
  \A i \in 1..Len(o) :
    /\ o[i].t \notin {"malloc", "calloc", "free", "free_map", "callback", "close"}
    /\ o[i].t = "tx" => o[i].cmd = TRANSFER_ERROR

\* C12: a control message of at least 20 bytes whose command is not
\* TRANSFER_INIT yields one TRANSFER_ERROR with code InvalidCommand and leaves
\* status, parameters, buffer, receipt map, counters and window as they were,
\* whatever the session status.
C12_InvalidCommand ==
  [][ControlStep /\ ev'.b >= CONTROL_MSG_SIZE /\ ev'.a # TRANSFER_INIT =>
       /\ Len(ErrorsSent(out')) = 1
       /\ ErrorsSent(out')[1].p1 = INVALID_COMMAND
       /\ NoSessionEffect(out')
       /\ SessionUntouched]_vars

\* C12 witness: an unknown command was answered with InvalidCommand in the
\* middle of a transfer, after a chunk had been stored.
C12_Witness ==
  /\ ev.kind = "control" /\ ev.b >= CONTROL_MSG_SIZE /\ ev.a # TRANSFER_INIT
  /\ Reported(out) = {INVALID_COMMAND}
  /\ Active /\ total_chunks_received_ > 0

\* C13: a control write shorter than 20 bytes yields one TRANSFER_ERROR with
\* code ControlMessageTooShort and is never taken as a command: whatever its
\* first byte, it starts, resets or supersedes no session.
C13_TooShort ==
  [][ControlStep /\ ev'.b < CONTROL_MSG_SIZE =>
       /\ Len(ErrorsSent(out')) = 1
       /\ ErrorsSent(out')[1].p1 = CONTROL_MESSAGE_TOO_SHORT
       /\ NoSessionEffect(out')
       /\ SessionUntouched]_vars

\* C13 witness: a short write whose first byte is TRANSFER_INIT arrived in
\* the middle of a transfer and was answered with ControlMessageTooShort.
C13_Witness ==
  /\ ev.kind = "control" /\ ev.b < CONTROL_MSG_SIZE /\ ev.a = TRANSFER_INIT
  /\ Reported(out) = {CONTROL_MESSAGE_TOO_SHORT}
  /\ Active /\ total_chunks_received_ > 0

\* what the peer, the consumer and the connection see of the effects o
Visible(o) == SelectSeq(o, LAMBDA e : e.t \in {"tx", "callback", "close"})

\* the step is the data chunk that completes the transfer
CompletionStep == DataStep /\ Active /\ status_' = "COMPLETE"

\* C14: the data chunk that completes the transfer does, in this order and
\* within the one event: set the status to Complete, send
\* TRANSFER_COMPLETE_ACK carrying received_size, invoke the completion
\* callback (when one is registered) with the buffer and received_size, and
\* request that the connection be closed; callback and close happen whether
\* or not the acknowledgment could be sent.
C14_CompletionOrder ==
  [][CompletionStep =>
       \E o \in {Visible(out')} :
         /\ Len(o) = IF image_callback_ THEN 3 ELSE 2
         /\ o[1].t = "tx" /\ o[1].cmd = TRANSFER_COMPLETE_ACK
         /\ o[1].p1 = received_size_' /\ o[1].st = "COMPLETE"
         /\ image_callback_ =>
              /\ o[2].t = "callback" /\ o[2].st = "COMPLETE"
              /\ o[2].p1 = received_size_' /\ o[2].p2 = image_buffer_
         /\ o[Len(o)].t = "close" /\ o[Len(o)].p1 = conn_id_]_vars

\* C14 witness: a transfer completed while the acknowledgment could not be
\* sent; the callback was invoked and the close requested all the same.
C14_Witness ==
  /\ ev.kind = "data" /\ status_ = "COMPLETE"
  /\ Len(Visible(out)) = 3
  /\ Visible(out)[1].cmd = TRANSFER_COMPLETE_ACK /\ ~Visible(out)[1].ok
  /\ Visible(out)[2].t = "callback"
  /\ Visible(out)[3].t = "close"

\* the step is a write to the data characteristic, long enough to carry the
\* chunk header or not
ChunkStep == ev'.kind \in {"data", "short_data"}

\* C15: a data chunk that arrives while the session status is neither
\* RequestingChunks nor Receiving (Idle, Complete or Error) is ignored: the
\* session state and the heap stay as they were, nothing is written and no
\* message is sent.
C15_ChunkIgnored ==
  [][ChunkStep /\ ~Active =>
       /\ out' = <<>>
       /\ SessionUntouched
       /\ UNCHANGED sequence_number_]_vars

\* C15 witness: a data chunk arrived after the transfer had completed and
\* did nothing.
C15_Witness ==
  /\ ev.kind = "data" /\ out = <<>>
  /\ status_ = "COMPLETE" /\ total_chunks_received_ = expected_chunks_

\* the setup states in which the characteristics are not all there yet
SetupWaiting ==
  {"WAITING_FOR_CONTROL", "WAITING_FOR_CONTROL_CCCD", "WAITING_FOR_DATA"}

\* C16 as stated: while the setup state is WaitingForControl,
\* WaitingForControlAck or WaitingForData, no write is processed as a
\* TRANSFER_INIT or as a data chunk and the session never leaves Idle.
C16_AsStated ==
  [][(char_creation_state_ \in SetupWaiting) =>
       /\ (status_ = "IDLE" => status_' = "IDLE")
       /\ (ev'.kind \in {"init", "data", "short_data"} =>
             (out' = <<>> /\ SessionUntouched))]_vars

\* C17 as stated: whenever the session status is Error, neither a buffer nor
\* a receipt map is held.
C17_AsStated ==
  status_ = "ERROR" => image_buffer_ = 0 /\ chunk_received_map_ = 0

\* the step handles an endpoint-created or a descriptor-created event that
\* reports success
CharCreated == ev'.kind = "add_char" /\ ev'.a = 1

DescrCreated == ev'.kind = "add_char_descr" /\ ev'.a = 1

\* the creation requests among the effects o
CreationRequests(o) ==
  SelectSeq(o, LAMBDA e :
    e.t \in {"create_service", "add_control_char", "add_char_descr",
             "add_data_char"})

\* the effects o are the one creation request what
Requested(o, what) ==
  Len(CreationRequests(o)) = 1 /\ CreationRequests(o)[1].t = what

handles == <<control_char_handle_, control_notify_handle_,
             data_char_handle_, data_notify_handle_>>

\* C18: with the creations succeeding, the setup advances strictly
\* WaitingForControl -> WaitingForControlAck -> WaitingForData -> BothReady:
\* the first endpoint-created event records the control handle and only then
\* is the descriptor requested, the descriptor-created event is followed by
\* the request for the data endpoint, the second endpoint-created event
\* records the data handle, and at most one creation request is outstanding.
C18_SetupOrder ==
  [][/\ CharCreated /\ char_creation_state_ = "WAITING_FOR_CONTROL" =>
          /\ char_creation_state_' = "WAITING_FOR_CONTROL_CCCD"
          /\ control_char_handle_' = ev'.b
          /\ Requested(out', "add_char_descr")
     /\ DescrCreated /\ char_creation_state_ = "WAITING_FOR_CONTROL_CCCD" =>
          /\ char_creation_state_' = "WAITING_FOR_DATA"
          /\ control_notify_handle_' = ev'.b
          /\ Requested(out', "add_data_char")
     /\ CharCreated /\ char_creation_state_ = "WAITING_FOR_DATA" =>
          /\ char_creation_state_' = "BOTH_CREATED"
          /\ data_char_handle_' = ev'.b
          /\ CreationRequests(out') = <<>>
     /\ char_creation_state_' # char_creation_state_ =>
          \/ /\ CharCreated
             /\ <<char_creation_state_, char_creation_state_'>> \in
                  {<<"WAITING_FOR_CONTROL", "WAITING_FOR_CONTROL_CCCD">>,
                   <<"WAITING_FOR_DATA", "BOTH_CREATED">>}
          \/ /\ DescrCreated
             /\ char_creation_state_ = "WAITING_FOR_CONTROL_CCCD"
             /\ char_creation_state_' = "WAITING_FOR_DATA"
     /\ Requested(out', "add_char_descr") =>
          CharCreated /\ control_char_handle_' = ev'.b
     /\ Requested(out', "add_data_char") =>
          DescrCreated /\ control_notify_handle_' = ev'.b
     /\ control_char_handle_' # control_char_handle_ =>
          CharCreated /\ char_count_ = 0
     /\ data_char_handle_' # data_char_handle_ =>
          CharCreated /\ char_count_ = 1
     /\ Len(pending') <= 1]_vars

\* C18 witness: the setup has run through; both characteristics and the
\* descriptor are recorded and nothing is outstanding.
C18_Witness ==
  /\ ev.kind = "add_char" /\ ev.a = 1
  /\ char_creation_state_ = "BOTH_CREATED"
  /\ control_char_handle_ = attrs.control /\ attrs.control # 0
  /\ control_notify_handle_ = attrs.cccd /\ attrs.cccd # 0
  /\ data_char_handle_ = attrs.data /\ attrs.data = ev.b /\ attrs.data # 0
  /\ pending = <<>>

\* C19 as stated: a descriptor-created event that reports success and
\* arrives in WaitingForControlAck records the handle, requests the data
\* endpoint and makes the state WaitingForData, whatever events came earlier
\* in this registration.
C19_AsStated ==
  [][DescrCreated /\ char_creation_state_ = "WAITING_FOR_CONTROL_CCCD" =>
       /\ char_creation_state_' = "WAITING_FOR_DATA"
       /\ control_notify_handle_' = ev'.b
       /\ Requested(out', "add_data_char")]_vars

\* the state the step finds is not one that waits for its event
Unexpected ==
  \/ /\ ev'.kind = "add_char"
     /\ char_creation_state_ \notin {"WAITING_FOR_CONTROL", "WAITING_FOR_DATA"}
  \/ /\ ev'.kind = "add_char_descr"
     /\ char_creation_state_ # "WAITING_FOR_CONTROL_CCCD"

RegStep == ev'.kind = "reg"

\* C21: a registration event, the first or a later one, puts the setup state
\* machine into WaitingForControl from any setup state, clears the four
\* recorded handles and the creation counters and asks for the service to be
\* created; it changes neither the transfer session nor the connection id;
\* and a setup that runs through after it ends in BothReady with the handles
\* of the new registration.
C21_ReRegistration ==
  [][/\ RegStep =>
          /\ char_creation_state_' = "WAITING_FOR_CONTROL"
          /\ handles' = <<0, 0, 0, 0>>
          /\ char_count_' = 0 /\ descr_count_' = 0
          /\ Requested(out', "create_service")
          /\ SessionUntouched
          /\ UNCHANGED <<conn_id_, mtu_, sequence_number_,
                         control_notifications_enabled_,
                         data_notifications_enabled_>>
     /\ char_creation_state_' = "BOTH_CREATED" =>
          /\ control_char_handle_' = attrs'.control
          /\ control_notify_handle_' = attrs'.cccd
          /\ data_char_handle_' = attrs'.data
          /\ attrs'.control > FirstHandle + attrs'.base]_vars

\* C21 witness: the application was registered again while a session held a
\* buffer on a connection, and the setup after it has reached BothReady with
\* the session and the connection id as they were.
C21_Witness ==
  /\ attrs.base > 0
  /\ char_creation_state_ = "BOTH_CREATED"
  /\ data_char_handle_ = attrs.data /\ attrs.data > FirstHandle + attrs.base
  /\ image_buffer_ # 0 /\ total_chunks_received_ > 0
  /\ conn_id_ # 0

\* the step handles a TRANSFER_INIT within the limits for which malloc and
\* calloc return a block
InitAllocated ==
  /\ ValidInitStep
  /\ Len(Effects(out', "malloc")) = 1
  /\ Len(Effects(out', "calloc")) = 1

\* what the session held is released, ahead of the malloc of the step
OldReleased ==
  /\ image_buffer_ # 0 => heap'[image_buffer_].st = "freed"
  /\ chunk_received_map_ # 0 => maps'[chunk_received_map_].st = "freed"
  /\ \A i, j \in 1..Len(out') :
       /\ out'[j].t = "malloc"
       /\ \/ out'[i].t = "free" /\ out'[i].p1 = image_buffer_
          \/ out'[i].t = "free_map" /\ out'[i].p1 = chunk_received_map_
       => i < j

\* C22: a TRANSFER_INIT within the limits first resets the session there
\* is; when malloc and calloc succeed the session holds a buffer of
\* total_size bytes and a receipt map of expected_chunks entries, none set,
\* and the handler sends at once one CHUNK_REQUEST for the first window,
\* start 0 and count min(W, expected_chunks), W being
\* DEFAULT_CHUNKS_PER_REQUEST; window and window counter are set accordingly,
\* and when the request is sent the status after the event is
\* RequestingChunks.
C22_FirstWindow ==
  [][/\ ValidInitStep => OldReleased
     /\ InitAllocated =>
          /\ image_buffer_' = Effects(out', "malloc")[1].p1
          /\ heap'[image_buffer_'].st = "live"
          /\ heap'[image_buffer_'].size = ev'.a
          /\ chunk_received_map_' # 0
          /\ maps'[chunk_received_map_'].st = "live"
          /\ maps'[chunk_received_map_'].n = ev'.c
          /\ maps'[chunk_received_map_'].got = {}
          /\ chunks_per_request_ = DEFAULT_CHUNKS_PER_REQUEST
          /\ Len(Requests(out')) = 1
          /\ Requests(out')[1].p1 = 0
          /\ Requests(out')[1].p2 = Min(chunks_per_request_, ev'.c)
          /\ Place(out', "malloc") < Place(out', "calloc")
          /\ Place(out', "calloc") < Place(out', "tx")
          /\ current_request_start_' = 0
          /\ current_request_end_' = U16(Min(chunks_per_request_, ev'.c) - 1)
          /\ current_batch_received_' = 0
          /\ total_chunks_received_' = 0 /\ received_size_' = 0
          /\ Requests(out')[1].ok => status_' = "REQUESTING_CHUNKS"
          /\ ~Requests(out')[1].ok => status_' = "ERROR"]_vars

\* C22 witness: a TRANSFER_INIT for more chunks than a window holds has been
\* answered with the CHUNK_REQUEST for the full first window.
C22_Witness ==
  /\ ev.kind = "init" /\ status_ = "REQUESTING_CHUNKS"
  /\ expected_chunks_ > chunks_per_request_
  /\ Len(Requests(out)) = 1 /\ Requests(out)[1].ok
  /\ Requests(out)[1].p2 = chunks_per_request_
  /\ current_request_start_ = 0
  /\ current_request_end_ = chunks_per_request_ - 1
  /\ maps[chunk_received_map_].got = {}

\* the step is a data chunk the session accepts
Accepted ==
  DataStep /\ Active /\ total_chunks_received_' = total_chunks_received_ + 1

\* the chunk of the step lies inside the window requested
InWindow ==
  ev'.a >= current_request_start_ /\ ev'.a <= current_request_end_

\* the size of the window requested, and the window counter with the chunk
\* of the step counted
WindowSize == current_request_end_ - current_request_start_ + 1

Counted == current_batch_received_ + (IF InWindow THEN 1 ELSE 0)

\* the counter reaches the size of the window and chunks lie past the window
WindowFull ==
  Counted = WindowSize /\ current_request_end_ + 1 < expected_chunks_

\* the step opens the window after the current one: one CHUNK_REQUEST with
\* the new start and count, the counter at 0
OpensNext ==
  /\ Len(Requests(out')) = 1
  /\ Requests(out')[1].p1 = current_request_end_ + 1
  /\ Requests(out')[1].p2 =
       Min(chunks_per_request_, expected_chunks_ - (current_request_end_ + 1))
  /\ current_request_start_' = current_request_end_ + 1
  /\ current_request_end_' = current_request_end_ + Requests(out')[1].p2
  /\ current_batch_received_' = 0

\* the step counts the chunk and requests nothing
CountsOnly ==
  /\ Requests(out') = <<>>
  /\ current_batch_received_' = Counted
  /\ UNCHANGED <<current_request_start_, current_request_end_>>

Marked == IF chunk_received_map_ = 0 THEN {} ELSE maps[chunk_received_map_].got

\* the sum of the lengths lens holds at the indices in ids
RECURSIVE SumLens(_, _)
SumLens(lens, ids) ==
  IF ids = {} THEN 0
  ELSE LET i == CHOOSE x \in ids : TRUE
       IN  lens[i] + SumLens(lens, ids \ {i})

\* C24: in every reachable state total_chunks_received is the number of
\* chunk ids marked received, the chunks stored are exactly the marked ones,
\* each stored once, and received_size is the sum of their payload lengths.
C24_Accumulators ==
  /\ total_chunks_received_ = Cardinality(Marked)
  /\ DOMAIN sess.lens = {id + 1 : id \in Marked}
  /\ received_size_ = SumLens(sess.lens, DOMAIN sess.lens)

\* C24 witness: a session holds two chunks of different lengths, of three
\* bytes altogether.
C24_Witness ==
  /\ Active /\ Cardinality(Marked) = 2
  /\ received_size_ = 3
  /\ \E i, j \in DOMAIN sess.lens : sess.lens[i] < sess.lens[j]

\* C25 as stated: in every state in which the session holds a buffer,
\* total_size <= MAX_TRANSFER_SIZE and chunk_size is at most the MTU
\* negotiated for the connection less the chunk header.
C25_AsStated ==
  image_buffer_ # 0 =>
    /\ total_size_ <= MAX_TRANSFER_SIZE
    /\ chunk_size_ <= mtu_ - DATA_HEADER_SIZE

\* the image buffers and the receipt maps that are allocated and not freed
LiveBuffers == {b \in BufIds : heap[b].st = "live"}
LiveMaps == {m \in BufIds : maps[m].st = "live"}

\* C26: at most one transfer session is live: in every reachable state at
\* most one image buffer and at most one receipt map are allocated and not
\* freed, and each of them is the one the session points to, so that nothing
\* is leaked, whatever the state of the session a TRANSFER_INIT superseded.
C26_OneSession ==
  /\ Cardinality(LiveBuffers) <= 1
  /\ Cardinality(LiveMaps) <= 1
  /\ LiveBuffers = {image_buffer_} \ {0}
  /\ LiveMaps = {chunk_received_map_} \ {0}

\* C26 witness: a TRANSFER_INIT has superseded a session that held a buffer
\* and a map with chunks received; the old ones are freed, the new ones live.
C26_Witness ==
  /\ ev.kind = "init"
  /\ \E i \in 1..Len(out) : out[i].t = "free_map" /\ out[i].p2 > 0
  /\ \E b \in BufIds : heap[b].st = "freed" /\ maps[b].st = "freed"
  /\ image_buffer_ # 0 /\ heap[image_buffer_].st = "live"
  /\ chunk_received_map_ # 0 /\ maps[chunk_received_map_].st = "live"

\* every chunk of the session is marked received
AllMarked == Marked = 0..(expected_chunks_ - 1)

\* C27: the status is Complete only if total_chunks_received equals
\* expected_chunks and every chunk id 0..expected_chunks-1 is marked
\* received, and the status becomes Complete only by an accepted chunk;
\* conversely the accepted chunk that makes total_chunks_received equal to
\* expected_chunks sets the status to Complete in the same event, whether or
\* not the chunk lies in the window requested and whether or not the payload
\* has a valid signature.
C27_Completion ==
  /\ [](status_ = "COMPLETE" =>
          total_chunks_received_ = expected_chunks_ /\ AllMarked)
  /\ [][/\ status_ # "COMPLETE" /\ status_' = "COMPLETE" => Accepted
        /\ Accepted /\ total_chunks_received_' = expected_chunks_
           => status_' = "COMPLETE"]_vars

\* C27 witness: the transfer completed although the window requested last
\* does not reach the final chunk (that chunk arrived unrequested), and the
\* consumer was told that the signature is not valid.
C27_Witness ==
  /\ ev.kind = "data" /\ status_ = "COMPLETE"
  /\ current_request_end_ + 1 < expected_chunks_
  /\ \E i \in 1..Len(out) : out[i].t = "callback" /\ ~out[i].ok

\* the session waits for the peer: a transfer in progress, or one that failed
Parked == status_ \in {"REQUESTING_CHUNKS", "RECEIVING", "ERROR"}

\* C28: there is no internal progress step.  While the status is
\* RequestingChunks, Receiving or Error, an event that is neither an accepted
\* data chunk nor a disconnect nor a TRANSFER_INIT leaves the status and the
\* whole session state as they were, allocates and frees nothing and sends no
\* CHUNK_REQUEST; the only events that change the status are the disconnect
\* (to Idle), a TRANSFER_INIT and an accepted chunk; and a CHUNK_REQUEST is
\* never sent again for the current window: one is sent only by a
\* TRANSFER_INIT, for its new session, or by an accepted chunk, for the
\* window that starts behind the current one.
C28_NoProgress ==
  [][Parked =>
       /\ ev'.kind \notin {"init", "disconnect"} /\ ~Accepted =>
            /\ SessionUntouched
            /\ NoSessionEffect(out')
            /\ Requests(out') = <<>>
       /\ status_' # status_ =>
            ev'.kind \in {"init", "disconnect"} \/ Accepted
       /\ ev'.kind = "disconnect" => status_' = "IDLE"
       /\ Requests(out') # <<>> =>
            \/ ev'.kind = "init"
            \/ /\ Accepted
               /\ Len(Requests(out')) = 1
               /\ Requests(out')[1].p1 = current_request_end_ + 1]_vars

\* C28 witness: in the middle of a transfer (one chunk of the window
\* received, the status Receiving) the client has rewritten the
\* configuration descriptor and switched the notifications off; the write
\* was answered, the session is as it was and no message was sent.
C28_Witness ==
  /\ ev.kind = "cccd" /\ status_ = "RECEIVING"
  /\ total_chunks_received_ = 1 /\ current_batch_received_ = 1
  /\ ~control_notifications_enabled_
  /\ \A i \in 1..Len(out) : out[i].t = "send_response"

\* cell i of the image buffer (counted from 1) lies in the stretch an accepted
\* chunk wrote: the chunk's stride offset and as many bytes as it carried
Written(i) ==
  \E id \in Marked :
    /\ i > id * chunk_size_
    /\ i <= id * chunk_size_ + sess.lens[id + 1]

\* the event completed the transfer and the consumer was called
Delivered ==
  ev.kind = "data" /\ status_ = "COMPLETE" /\ Len(Effects(out, "callback")) > 0

\* C29: the completion check counts chunks only, so a short chunk leaves a
\* gap it does not detect.  When a transfer completes, the consumer is given
\* the whole buffer of total_size bytes together with received_size, the sum
\* of the payload lengths, whatever total_size is; exactly the
\* cells inside some accepted chunk's stretch hold payload, every other cell
\* is as malloc left it; and no TRANSFER_ERROR reports the gap.
C29_Gap ==
  Delivered =>
    /\ Effects(out, "callback")[1].p1 = received_size_
    /\ received_size_ = SumLens(sess.lens, DOMAIN sess.lens)
    /\ Len(Image) = total_size_
    /\ \A i \in 1..total_size_ : Image[i] = UNINIT <=> ~Written(i)
    /\ ErrorsSent(out) = <<>>

\* C29 witness: a transfer of more than one chunk completed and the consumer
\* was called with received_size < total_size and a buffer with a cell no
\* chunk wrote, a chunk that is not the last one having been shorter than
\* chunk_size.
C29_Witness ==
  /\ Delivered
  /\ expected_chunks_ > 1
  /\ Effects(out, "callback")[1].p1 < total_size_
  /\ \E i \in 1..total_size_ : Image[i] = UNINIT
  /\ \E id \in 0..(expected_chunks_ - 2) : sess.lens[id + 1] < chunk_size_

SignatureFlag == Effects(out, "callback")[1].ok

\* cell i of the buffer handed to the consumer holds b; a cell no chunk wrote
\* holds whatever malloc left there, so it may hold b
Holds(i, b) == i <= Len(Image) /\ Image[i] = b
MayHold(i, b) == i <= Len(Image) /\ Image[i] \in {b, UNINIT}

\* the event completed a transfer: the acknowledgment was attempted, the
\* connection is being closed, and the callback, if registered, was called
Completed ==
  /\ Len(SelectSeq(out, LAMBDA e : e.t = "tx" /\ e.cmd = TRANSFER_COMPLETE_ACK)) = 1
  /\ Len(Effects(out, "close")) = 1
  /\ image_callback_ => Len(Effects(out, "callback")) = 1

\* C31 as stated: the flag passed to the completion callback is true exactly
\* when received_size >= 2 and the first two bytes of the buffer are 0xFF
\* 0xD8, without any undefined behaviour on the way; and whatever the flag,
\* the event that makes the status Complete sends the acknowledgment, calls
\* the callback and closes the connection.
C31_AsStated ==
  /\ Delivered =>
       /\ SignatureFlag =>
            received_size_ >= 2 /\ MayHold(1, JPEG_SOI_0) /\ MayHold(2, JPEG_SOI_1)
       /\ received_size_ >= 2 /\ Holds(1, JPEG_SOI_0) /\ Holds(2, JPEG_SOI_1)
            => SignatureFlag
  /\ ev.kind = "data" /\ status_ = "COMPLETE" /\ out # <<>> => Completed
  /\ fault # "oob_read"

\* the session's buffer and receipt map are allocated
Allocated ==
  /\ image_buffer_ # 0 /\ heap[image_buffer_].st = "live"
  /\ chunk_received_map_ # 0 /\ maps[chunk_received_map_].st = "live"

\* every accepted chunk wrote inside the buffer and marked an index of the map
WritesInside ==
  \A id \in Marked :
    /\ id < expected_chunks_
    /\ id * chunk_size_ + sess.lens[id + 1] <= total_size_

\* C32 as stated: whenever the status is RequestingChunks or Receiving the
\* image buffer and the receipt map are allocated, every accepted chunk wrote
\* inside [0, total_size) and marked an index below expected_chunks, and no
\* chunk is written through a null or freed pointer; the consumer releases
\* only from within or after the completion callback.
C32_AsStated ==
  Active =>
    /\ Allocated
    /\ WritesInside
    /\ fault \notin {"null_write", "null_read", "use_after_free"}

\* the chunk ids of the window requested
Window == current_request_start_..current_request_end_

\* C33 as stated: whenever the status is RequestingChunks or Receiving and
\* chunks are still missing, at least one chunk of the window requested has
\* not been received: a chunk accepted before its window was opened never
\* leaves the session waiting on a window whose chunks have all arrived.
C33_AsStated ==
  Active /\ total_chunks_received_ < expected_chunks_ =>
    \E id \in Window : id \notin Marked

Handed(o) == SelectSeq(o, LAMBDA e : e.t = "tx" /\ e.handed)

\* C35: a control message (CHUNK_REQUEST, TRANSFER_COMPLETE_ACK,
\* TRANSFER_ERROR) is handed to the stack only while the control
\* characteristic's handle is set and the notification flag is set; the flag
\* is what the last 2-byte write to the control configuration descriptor
\* since the last disconnect said in bit 0: such a write sets it to that
\* bit, a descriptor write of another length leaves it alone, a disconnect
\* clears it and nothing else changes it; and a TRANSFER_INIT that arrives
\* while the flag is clear hands no message to the stack and ends with the
\* status Error.
C35_Notifications ==
  [][/\ Handed(out') # <<>> =>
          /\ control_char_handle_ # 0 /\ control_char_handle_' # 0
          /\ control_notifications_enabled_ /\ control_notifications_enabled_'
     /\ ev'.kind = "cccd" /\ ev'.a = 2 =>
          control_notifications_enabled_' = (ev'.b = 1)
     /\ control_notifications_enabled_' # control_notifications_enabled_ =>
          \/ ev'.kind = "cccd" /\ ev'.a = 2
          \/ ev'.kind = "disconnect" /\ ~control_notifications_enabled_'
     /\ ev'.kind = "init" /\ ~control_notifications_enabled_ =>
          /\ Handed(out') = <<>>
          /\ status_' = "ERROR"]_vars

\* C35 witness: a TRANSFER_INIT within the limits arrived with the flag
\* clear; buffer and map were allocated, the CHUNK_REQUEST and the
\* TRANSFER_ERROR behind it were refused, the status is Error.
C35_Witness ==
  /\ ev.kind = "init" /\ status_ = "ERROR"
  /\ control_char_handle_ # 0 /\ ~control_notifications_enabled_
  /\ Len(Effects(out, "calloc")) = 1
  /\ Len(Effects(out, "tx")) = 2
  /\ Handed(out) = <<>>

\* C36: in every reachable state the window counter is at most the size of
\* the window requested (end - start + 1); the status RequestingChunks
\* implies that the counter is 0, no chunk having been accepted since the
\* CHUNK_REQUEST was sent; and the status Receiving implies that at least one
\* chunk has been received.
C36_WindowCounter ==
  /\ current_batch_received_ <= WindowSize
  /\ status_ = "REQUESTING_CHUNKS" => current_batch_received_ = 0
  /\ status_ = "RECEIVING" => total_chunks_received_ >= 1

\* C36 witness: the second window is in progress: one of its chunks has
\* arrived, after the two chunks of the first window.
C36_Witness ==
  /\ status_ = "RECEIVING"
  /\ current_request_start_ = DEFAULT_CHUNKS_PER_REQUEST
  /\ current_batch_received_ = 1
  /\ total_chunks_received_ = DEFAULT_CHUNKS_PER_REQUEST + 1

\* C37 as stated: in every state in which a window has been requested (the
\* status is RequestingChunks, Receiving or Complete), the window fields
\* satisfy 0 <= start <= end <= expected_chunks - 1, both being 16-bit
\* values; in particular after a TRANSFER_INIT with expected_chunks = 0.
C37_AsStated ==
  status_ \in {"REQUESTING_CHUNKS", "RECEIVING", "COMPLETE"} =>
    /\ 0 <= current_request_start_
    /\ current_request_start_ <= current_request_end_
    /\ current_request_end_ <= expected_chunks_ - 1
    /\ current_request_end_ < 65536

\* the data_length values a chunk header may state
ClaimedLengths == 0..(MaxPayload + 1)

\* what handle_data_chunk makes of the write of chunk id with payload whose
\* header states claimed, in the current state
AfterChunk(id, payload, claimed) ==
  handle_data_chunk(
    Begin(World, [Ev("data") EXCEPT !.a = id, !.payload = payload]),
    DataWrite(id, payload, claimed),
    JPEG_SOI_0, JPEG_SOI_1, FALSE, TRUE, FALSE)

\* C38: the number of bytes copied and added to received_size for a chunk is
\* the payload length of the write, never the data_length its header states:
\* in every reachable state, two writes that differ only in the header's
\* data_length leave the service in the same state, with the same messages
\* sent; and the chunk last accepted is recorded with the length of its
\* payload.
C38_HeaderLengthIgnored ==
  /\ \A id \in ChunkIds :
     \A payload \in PayloadsOf(id), claimed \in ClaimedLengths :
       AfterChunk(id, payload, claimed) = AfterChunk(id, payload, Len(payload))
  /\ ev.kind = "data" /\ Active /\ ev.a + 1 \in DOMAIN sess.lens /\ out = <<>> =>
       sess.lens[ev.a + 1] = Len(ev.payload)

\* C38 witness: a chunk whose header states a data_length other than the
\* length of its payload has been accepted and counted with the length of
\* the payload.
C38_Witness ==
  /\ ev.kind = "data" /\ status_ = "RECEIVING" /\ out = <<>>
  /\ ev.b # Len(ev.payload)
  /\ Received(ev.a)
  /\ received_size_ = Len(ev.payload)

\* the step is the run of RunLength control writes
IsRun(e) == e.kind = "control" /\ e.c = RunLength

\* C39: every attempt to send a control message (CHUNK_REQUEST,
\* TRANSFER_COMPLETE_ACK or TRANSFER_ERROR), handed to the stack or refused
\* because notifications are disabled, takes the next sequence number: the
\* counter goes up by one modulo 2^16 per attempt and the message carries the
\* new value; nothing else changes the counter, neither a session reset, a
\* superseding TRANSFER_INIT nor a disconnect.  The messages handed to the
\* stack therefore carry increasing numbers modulo 2^16, with gaps where an
\* attempt was refused.
C39_SequenceNumbers ==
  [][IF IsRun(ev')
     THEN /\ sequence_number_' = U16(sequence_number_ + RunLength)
          /\ Len(Effects(out', "tx")) = 1
          /\ Effects(out', "tx")[1].seq = sequence_number_'
     ELSE /\ sequence_number_' = U16(sequence_number_ + Len(Effects(out', "tx")))
          /\ \A i \in 1..Len(Effects(out', "tx")) :
               Effects(out', "tx")[i].seq = U16(sequence_number_ + i)]_vars

\* one write made the server attempt two messages, numbered 65535 and 0
C39_Witness ==
  /\ Len(Effects(out, "tx")) = 2
  /\ Effects(out, "tx")[1].seq = 65535
  /\ Effects(out, "tx")[2].seq = 0
  /\ sequence_number_ = 0

\* the two configuration completion events
ConfigEvents == {"ADV_DATA_SET_COMPLETE", "SCAN_RSP_DATA_SET_COMPLETE"}

\* C40 as stated: handle_gap_event starts advertising only when it has taken
\* both configuration completion events of AdvertisingManager::init, and it
\* starts advertising exactly once for the pair.
C40_AsStated ==
  /\ gap.starts > 0 => gap.got = ConfigEvents
  /\ gap.got = ConfigEvents => gap.starts = 1

====
